---- MODULE Spec2Model ----
(***************************************************************************)
(* Model of the livelabs.cc sandbox core (backend/app): the one-shot       *)
(* script runner, the app-container manager, the embedding proxy, the      *)
(* init orchestrator and the /execute route, over a container engine and   *)
(* a database.  Strings the code inspects character by character (script   *)
(* text, init stdout, URLs, header names) are sequences of one-character   *)
(* strings; messages the code only concatenates are sequences of pieces.   *)
(***************************************************************************)
EXTENDS Integers, Sequences, FiniteSets, TLC

VARIABLES
    containers,   \* the engine: container id -> [name, status]
    nextCid,      \* the next container id the engine hands out
    runCalls,     \* number of run_script calls made (SpecRunner)
    runLast,      \* record of the last run_script call (SpecRunner)
    proxyPc,      \* proxy_fetch: "idle", "fetching" (awaiting upstream), "done"
    proxyReq,     \* proxy_fetch: the request [token_ok, url]
    proxyOutbound,\* proxy_fetch: URLs requested upstream for this request, in order
    proxyUpstream,\* proxy_fetch: header items of the final upstream response
    proxyError,   \* proxy_fetch: the exception client.get raised ("": none)
    proxyResp,    \* proxy_fetch: the response returned to the client
    proxyCount,   \* number of proxy requests made (SpecProxy)
    track,        \* the Track row of the enrollment (read-only)
    enrollment,   \* the Enrollment row in the database
    initPc,       \* run_init, per request thread: "idle", "loaded", "marked",
                  \*   "in_runner" (the init script is executing), "returned"
    initLoaded,   \* run_init: the Enrollment object the thread's session loaded
    initCid,      \* run_init: the container running the thread's init script
    initResult,   \* run_init: the runner result the thread got (NoResult: none)
    initRet,      \* run_init: the response the thread returned
    initLastCommit, \* the thread whose commit wrote the Enrollment row last
    initCalls,    \* number of run_init requests made (SpecInit)
    steps,        \* the Step rows of the track, by order (read-only)
    executions,   \* the executions table: Execution rows in insertion order
    now,          \* the wall clock, in ticks
    execPc,       \* execute_script, per thread: "idle", "running" (the row is
                  \*   committed, the script is with the runner), "returned"
    execReq,      \* execute_script: the request [id, caller, step_order, script_type]
    execRow,      \* execute_script: the id of the Execution row the thread created
    execRet,      \* execute_script: the response the thread returned
    execCalls,    \* number of /execute requests made (SpecExecute)
    appRows,      \* the app_containers table: row id -> AppContainer row
    nextRowId,    \* the next primary key of app_containers
    appPc,        \* app container routes, per thread: the step the request is at
    appOp,        \* app container routes: "start", "restart", "stop", "status"
    appRow,       \* app container routes: the id of the row the thread's session holds
    appRet,       \* app container routes: the response the thread returned
    appPrev,      \* app container routes: the request the thread's client made before this one
    app_container_ports, \* Track.app_container_ports of the enrollment's track
    appPorts,     \* start_container, per thread: the local ports (container port -> host port)
    enrolled,     \* the enrollments table has the enrollment's row
    deleteRet,    \* delete_enrollment: the status of the last response (0: none)
    appCalls,     \* number of app container requests made (SpecApp)
    engineEvents, \* number of container exits / removals outside the program (SpecApp)
    appMissing,   \* app container routes, per thread: the handles the engine answered NotFound for
    appUrl,       \* app container routes, per thread: the url of the response (None: no url)
    termPc,       \* terminal_websocket: the step the session is at
    termCid,      \* terminal_websocket: the container created for the session (0: none)
    termOut,      \* terminal_websocket: the frames sent to the client, in order
    termClose,    \* terminal_websocket: the code of the close sent to the client (0: none)
    termReader,   \* TerminalSession.read_output: "none", "reading", "done"
    termEndedBy,  \* terminal_websocket: what ended the session
    termStop,     \* TerminalSession.close: the reader's state when container.stop was called
    termCount,    \* number of terminal sessions opened (SpecTerminal)
    enrollments,  \* the enrollments table: the ids of the user's Enrollment rows in the track
    nextEnrollmentId, \* the next primary key of enrollments
    enrollPc,     \* create_enrollment, per thread: the step the request is at
    enrollRet,    \* create_enrollment / delete_enrollment, per thread: the status returned
    enrollCalls,  \* number of enroll and unenroll requests made (SpecEnroll)
    pull_status,  \* ImageManager._pull_status[image].status of the one image ("": no entry)
    imgPc,        \* ImageManager, per thread: where the thread is in pull_image / pull_image_async
    imgCalls      \* number of pull_image and pull_image_async calls made (SpecImages)

engineVars == <<containers, nextCid>>
runnerVars == <<runCalls, runLast>>
proxyVars == <<proxyPc, proxyReq, proxyOutbound, proxyUpstream, proxyError, proxyResp, proxyCount>>

dbVars == <<track, enrollment>>
initVars == <<initPc, initLoaded, initCid, initResult, initRet, initLastCommit, initCalls>>

execVars == <<steps, executions, now, execPc, execReq, execRow, execRet, execCalls>>

appVars == <<appRows, nextRowId, appPc, appOp, appRow, appRet, appPrev, app_container_ports,
             appPorts, enrolled, deleteRet, appCalls, engineEvents, appMissing, appUrl>>

termVars == <<termPc, termCid, termOut, termClose, termReader, termEndedBy, termStop, termCount>>

enrollVars == <<enrollments, nextEnrollmentId, enrollPc, enrollRet, enrollCalls>>

imageVars == <<pull_status, imgPc, imgCalls>>

vars == <<engineVars, runnerVars, proxyVars, dbVars, initVars, execVars, appVars, termVars,
          enrollVars, imageVars>>

---------------------------------------------------------------------------
(* Bounds *)

\* run_script calls in one behaviour of SpecRunner
MaxRunCalls == 2

\* app container requests in one behaviour of SpecApp
MaxAppCalls == 3

\* container exits and removals outside the program in one behaviour of SpecApp
MaxEngineEvents == 1

\* terminal sessions in one behaviour of SpecTerminal
MaxTermSessions == 2

\* PTY output frames of one terminal session
MaxOutputFrames == 1

\* /execute requests in one behaviour of SpecExecute
MaxExecCalls == 2

\* status queries in one behaviour of SpecAppInit
MaxStatusQueries == 1

\* pull_image and pull_image_async calls in one behaviour of SpecImages
MaxImageCalls == 3

\* proxy requests in one behaviour of SpecProxy
MaxProxyRequests == 2

\* redirects the upstream answers with for one proxy request
MaxRedirects == 2

\* run_init requests in one behaviour of SpecInit
MaxInitCalls == 3

\* enroll and unenroll requests in one behaviour of SpecEnroll
MaxEnrollCalls == 4

---------------------------------------------------------------------------
(* Characters and strings *)

\* str.strip() with no argument strips these
Whitespace == {" ", "\n", "\t"}

RECURSIVE lstrip(_)
lstrip(s) ==
    IF s = <<>> THEN <<>>
    ELSE IF Head(s) \in Whitespace THEN lstrip(Tail(s)) ELSE s

RECURSIVE rstrip(_)
rstrip(s) ==
    IF s = <<>> THEN <<>>
    ELSE IF s[Len(s)] \in Whitespace THEN rstrip(SubSeq(s, 1, Len(s) - 1)) ELSE s

strip(s) == rstrip(lstrip(s))

UpperLetters ==
    <<"A", "B", "C", "D", "E", "F", "G", "H", "I", "J", "K", "L", "M", "N",
      "O", "P", "Q", "R", "S", "T", "U", "V", "W", "X", "Y", "Z">>
LowerLetters ==
    <<"a", "b", "c", "d", "e", "f", "g", "h", "i", "j", "k", "l", "m", "n",
      "o", "p", "q", "r", "s", "t", "u", "v", "w", "x", "y", "z">>

Letters == {UpperLetters[i] : i \in 1..26} \cup {LowerLetters[i] : i \in 1..26}
Digits == {"0", "1", "2", "3", "4", "5", "6", "7", "8", "9"}

\* str.lower(), one character and a whole string
LowerChar(c) ==
    IF \E i \in 1..26 : UpperLetters[i] = c
    THEN LowerLetters[CHOOSE i \in 1..26 : UpperLetters[i] = c]
    ELSE c

lower(s) == [i \in 1..Len(s) |-> LowerChar(s[i])]

StartsWith(s, p) == Len(s) >= Len(p) /\ SubSeq(s, 1, Len(p)) = p
Drop(s, n) == SubSeq(s, n + 1, Len(s))

\* str.find(c) + 1: the first position of character c in s, 0 when absent
IndexOf(s, c) ==
    IF \E i \in 1..Len(s) : s[i] = c
    THEN CHOOSE i \in 1..Len(s) : s[i] = c /\ \A j \in 1..(i - 1) : s[j] # c
    ELSE 0

---------------------------------------------------------------------------
(* Script runner: ScriptRunner.run_script (runner.py) *)

\* self.timeout, seconds
RunnerTimeout == 300

\* the result record run_script returns
Result(success, stdout, stderr, exit_code, duration_ms) ==
    [success |-> success, stdout |-> stdout, stderr |-> stderr,
     exit_code |-> exit_code, duration_ms |-> duration_ms]

NoResult == Result(FALSE, <<>>, <<>>, -1, -1)

\* What the engine does during one run_script call.
\*   run:    client.containers.run(detach=True) = create + start.
\*           "ok"              container created and started, handle returned
\*           "image_not_found" ImageNotFound, nothing created
\*           "api_error"       APIError at create, nothing created
\*           "start_failed"    created, then APIError at start: run() raises
\*                             and returns no handle
\*           "conn_error"      the daemon cannot be reached (not an APIError)
\*   wait:   container.wait(timeout): "exit" (with exit code code), "timeout"
\*           (the HTTP read times out), "api_error"
\*   logs:   container.logs(): "ok" or "api_error"
\*   remove: container.remove(force=True) in the finally block: "ok", "fail"
RunOutcomes == {"ok", "image_not_found", "api_error", "start_failed", "conn_error"}
WaitOutcomes == {"exit", "timeout", "api_error"}
LogsOutcomes == {"ok", "api_error"}
RemoveOutcomes == {"ok", "fail"}
ExitCodes == {0, 1, 2}
Durations == {3, 40}

\* stdout / stderr a script can leave in the container's logs
PlainStdouts == {<<>>, <<"o", "k">>}
PlainStderrs == {<<>>, <<"boom">>}

EngineBehaviour(run, wait, code, logs, remove, out, err, ms) ==
    [run |-> run, wait |-> wait, code |-> code, logs |-> logs,
     remove |-> remove, out |-> out, err |-> err, ms |-> ms]

\* the behaviours, each path of the call once (fields the path does not
\* reach are fixed)
EngineBehaviours(stdouts) ==
    {EngineBehaviour("ok", "exit", c, "ok", rm, out, err, ms) :
        c \in ExitCodes, rm \in RemoveOutcomes, out \in stdouts,
        err \in PlainStderrs, ms \in Durations}
    \cup {EngineBehaviour("ok", "exit", 0, "api_error", rm, <<>>, <<>>, ms) :
        rm \in RemoveOutcomes, ms \in Durations}
    \cup {EngineBehaviour("ok", w, 0, "ok", rm, <<>>, <<>>, RunnerTimeout * 1000) :
        w \in {"timeout"}, rm \in RemoveOutcomes}
    \cup {EngineBehaviour("ok", "api_error", 0, "ok", rm, <<>>, <<>>, ms) :
        rm \in RemoveOutcomes, ms \in Durations}
    \cup {EngineBehaviour(r, "exit", 0, "ok", "ok", <<>>, <<>>, ms) :
        r \in RunOutcomes \ {"ok"}, ms \in Durations}

Exc(kind, msg) == [kind |-> kind, msg |-> msg]
NoExc == Exc("none", "")

\* the exception the try body (runner.py 57-94) raises under behaviour o
TryBody(o) ==
    IF o.run = "image_not_found" THEN Exc("ImageNotFound", "No such image")
    ELSE IF o.run \in {"api_error", "start_failed"} THEN Exc("APIError", "500 Server Error")
    ELSE IF o.run = "conn_error" THEN Exc("Exception", "Connection aborted")
    ELSE IF o.wait = "timeout" THEN Exc("Exception", "Read timed out")
    ELSE IF o.wait = "api_error" THEN Exc("APIError", "500 Server Error")
    ELSE IF o.logs = "api_error" THEN Exc("APIError", "500 Server Error")
    ELSE NoExc

\* the except clauses (runner.py 96-147), in order.  ContainerError is
\* raised by containers.run only when detach is false, so it never arrives.
except_clause_no_catch_all(e, docker_image, ms) ==
    IF e.kind = "ImageNotFound"
    THEN [raised |-> FALSE,
          result |-> Result(FALSE, <<>>, <<"Docker image not found: ", docker_image>>, 1, ms)]
    ELSE IF e.kind = "APIError"
    THEN [raised |-> FALSE,
          result |-> Result(FALSE, <<>>, <<"Docker API error: ", e.msg>>, 1, ms)]
    ELSE [raised |-> TRUE, result |-> NoResult]

except_clause(e, docker_image, ms) ==
    IF e.kind = "ImageNotFound"
    THEN [raised |-> FALSE,
          result |-> Result(FALSE, <<>>, <<"Docker image not found: ", docker_image>>, 1, ms)]
    ELSE IF e.kind = "APIError"
    THEN [raised |-> FALSE,
          result |-> Result(FALSE, <<>>, <<"Docker API error: ", e.msg>>, 1, ms)]
    ELSE [raised |-> FALSE,
          result |-> Result(FALSE, <<>>, <<"Execution error: ", e.msg>>, 1, ms)]

\* the engine created a container for this call / the call holds its handle
EngineCreated(o) == o.run \in {"ok", "start_failed"}
HandleBound(o) == o.run = "ok"

\* the finally block (runner.py 149-155): the container is gone afterwards
\* iff the call holds the handle and the engine's remove succeeds
finally_removes(o) == HandleBound(o) /\ o.remove = "ok"

\* runner.py 46 without the strip: "if not script"
is_empty_script_no_strip(script) == script = <<>>

\* runner.py 46: not script.strip()
is_empty_script(script) == strip(script) = <<>>

\* run_script: what the caller gets and what the engine is left with.
\*   path: "empty", "return" (88-94) or the exception kind handled
run_script(script, docker_image, o) ==
    IF is_empty_script(script)
    THEN [path |-> "empty", raised |-> FALSE, engine_called |-> FALSE,
          created |-> FALSE, left_over |-> FALSE, timed_out |-> FALSE,
          result |-> Result(TRUE, <<>>, <<>>, 0, 0)]
    ELSE LET e == TryBody(o)
             handled == except_clause(e, docker_image, o.ms)
         IN [path |-> IF e.kind = "none" THEN "return" ELSE e.kind,
             raised |-> IF e.kind = "none" THEN FALSE ELSE handled.raised,
             engine_called |-> TRUE,
             created |-> EngineCreated(o),
             left_over |-> EngineCreated(o) /\ ~finally_removes(o),
             timed_out |-> HandleBound(o) /\ o.wait = "timeout",
             result |-> IF e.kind = "none"
                        THEN Result(o.code = 0, o.out, o.err, o.code, o.ms)
                        ELSE handled.result]

\* the status the engine reports for a container a finished call left behind
LeftOverStatus(o) ==
    IF o.run = "start_failed" THEN "created"
    ELSE IF o.wait = "exit" THEN "exited" ELSE "running"

\* scripts handed to the runner
Scripts == {<<>>, <<" ", "\n">>, <<"e", "x", "i", "t">>}
RunnerImage == "livelabs-runner:latest"

NoRun == [script |-> <<>>, o |-> EngineBehaviour("ok", "exit", 0, "ok", "ok", <<>>, <<>>, 3),
          cid |-> 0, ret |-> run_script(<<>>, RunnerImage,
                     EngineBehaviour("ok", "exit", 0, "ok", "ok", <<>>, <<>>, 3)),
          called |-> FALSE]

\* one call of run_script, start to return
RunnerCall ==
    /\ runCalls < MaxRunCalls
    /\ \E script \in Scripts, o \in EngineBehaviours(PlainStdouts) :
         LET ret == run_script(script, RunnerImage, o) IN
         /\ runLast' = [script |-> script, o |-> o,
                        cid |-> IF ret.created THEN nextCid ELSE 0,
                        ret |-> ret, called |-> TRUE]
         /\ nextCid' = IF ret.created THEN nextCid + 1 ELSE nextCid
         /\ containers' =
              IF ret.left_over
              THEN [c \in DOMAIN containers \cup {nextCid} |->
                      IF c = nextCid THEN [name |-> "", status |-> LeftOverStatus(o)]
                      ELSE containers[c]]
              ELSE containers
    /\ runCalls' = runCalls + 1
    /\ UNCHANGED <<proxyVars, dbVars, initVars, execVars, appVars, termVars, enrollVars, imageVars>>

---------------------------------------------------------------------------
(* Embedding proxy: routes/proxy.py *)

S_http == <<"h", "t", "t", "p">>
S_https == <<"h", "t", "t", "p", "s">>
S_sep == <<":", "/", "/">>
S_localhost == <<"l", "o", "c", "a", "l", "h", "o", "s", "t">>
S_loopback == <<"1", "2", "7", ".", "0", ".", "0", ".", "1">>

U_localhost_port ==
    <<"h", "t", "t", "p", ":", "/", "/", "l", "o", "c", "a", "l", "h", "o",
      "s", "t", ":", "8", "0", "8", "0", "/">>
U_loopback_path ==
    <<"h", "t", "t", "p", "s", ":", "/", "/", "1", "2", "7", ".", "0", ".",
      "0", ".", "1", "/", "a", "p", "p">>
U_localhost_bare ==
    <<"h", "t", "t", "p", ":", "/", "/", "l", "o", "c", "a", "l", "h", "o",
      "s", "t">>
U_example ==
    <<"h", "t", "t", "p", "s", ":", "/", "/", "e", "x", "a", "m", "p", "l",
      "e", ".", "c", "o", "m">>
U_localhost_suffix ==
    <<"h", "t", "t", "p", ":", "/", "/", "l", "o", "c", "a", "l", "h", "o",
      "s", "t", ".", "e", "v", "i", "l", ".", "c", "o", "m", "/">>
U_userinfo ==
    <<"h", "t", "t", "p", ":", "/", "/", "l", "o", "c", "a", "l", "h", "o",
      "s", "t", ":", "8", "0", "@", "e", "v", "i", "l", ".", "c", "o", "m",
      "/">>
U_loopback_nodots ==
    <<"h", "t", "t", "p", ":", "/", "/", "1", "2", "7", "x", "0", "x", "0",
      "x", "1", "/">>
U_ftp ==
    <<"f", "t", "p", ":", "/", "/", "l", "o", "c", "a", "l", "h", "o", "s",
      "t", "/">>
U_nohost == <<"h", "t", "t", "p", ":", "/", "/", "/", "a", "p", "p">>
U_noscheme ==
    <<"l", "o", "c", "a", "l", "h", "o", "s", "t", ":", "8", "0", "8", "0">>
U_upper_scheme ==
    <<"H", "T", "T", "P", ":", "/", "/", "l", "o", "c", "a", "l", "h", "o",
      "s", "t", "/">>
U_embedded ==
    <<"h", "t", "t", "p", ":", "/", "/", "e", "v", "i", "l", ".", "c", "o",
      "m", "/", "?", "u", "=", "h", "t", "t", "p", ":", "/", "/", "l", "o",
      "c", "a", "l", "h", "o", "s", "t">>
U_metadata ==
    <<"h", "t", "t", "p", ":", "/", "/", "1", "6", "9", ".", "2", "5", "4",
      ".", "1", "6", "9", ".", "2", "5", "4", "/", "l", "a", "t", "e", "s",
      "t">>

H_xfo_lower ==
    <<"x", "-", "f", "r", "a", "m", "e", "-", "o", "p", "t", "i", "o", "n",
      "s">>
H_csp_lower ==
    <<"c", "o", "n", "t", "e", "n", "t", "-", "s", "e", "c", "u", "r", "i",
      "t", "y", "-", "p", "o", "l", "i", "c", "y">>
H_cspro_lower ==
    <<"c", "o", "n", "t", "e", "n", "t", "-", "s", "e", "c", "u", "r", "i",
      "t", "y", "-", "p", "o", "l", "i", "c", "y", "-", "r", "e", "p", "o",
      "r", "t", "-", "o", "n", "l", "y">>
H_xfo_mixed ==
    <<"X", "-", "F", "r", "a", "m", "e", "-", "O", "p", "t", "i", "o", "n",
      "s">>
H_csp_upper ==
    <<"C", "O", "N", "T", "E", "N", "T", "-", "S", "E", "C", "U", "R", "I",
      "T", "Y", "-", "P", "O", "L", "I", "C", "Y">>
H_cspro_mixed ==
    <<"C", "o", "n", "t", "e", "n", "t", "-", "S", "e", "c", "u", "r", "i",
      "t", "y", "-", "P", "o", "l", "i", "c", "y", "-", "R", "e", "p", "o",
      "r", "t", "-", "O", "n", "l", "y">>
H_content_type ==
    <<"C", "o", "n", "t", "e", "n", "t", "-", "T", "y", "p", "e">>
H_content_type_lower ==
    <<"c", "o", "n", "t", "e", "n", "t", "-", "t", "y", "p", "e">>
H_connection == <<"C", "o", "n", "n", "e", "c", "t", "i", "o", "n">>
H_transfer_encoding ==
    <<"t", "r", "a", "n", "s", "f", "e", "r", "-", "e", "n", "c", "o", "d",
      "i", "n", "g">>
H_keep_alive == <<"K", "e", "e", "p", "-", "A", "l", "i", "v", "e">>
H_connection_lower == <<"c", "o", "n", "n", "e", "c", "t", "i", "o", "n">>
H_keep_alive_lower == <<"k", "e", "e", "p", "-", "a", "l", "i", "v", "e">>
H_custom == <<"X", "-", "C", "u", "s", "t", "o", "m">>

\* STRIP_HEADERS: headers stripped for iframe embedding
STRIP_HEADERS == {H_xfo_lower, H_csp_lower, H_cspro_lower}

\* the hop-by-hop names the loop skips as well (proxy.py 96)
SKIP_HEADERS == {H_transfer_encoding, H_connection_lower, H_keep_alive_lower}

RECURSIVE DropDigits(_)
DropDigits(s) ==
    IF s # <<>> /\ Head(s) \in Digits THEN DropDigits(Tail(s)) ELSE s

\* (:\d+)? applied to the text after the host
AfterPort(s) ==
    IF Len(s) >= 2 /\ s[1] = ":" /\ s[2] \in Digits THEN DropDigits(Tail(s)) ELSE s

\* (/.*)?$ : nothing left, or "/" and any characters but a newline; Python's
\* $ also matches just before one newline that ends the string
MatchesPathEnd(s) ==
    \/ s = <<>>
    \/ s = <<"\n">>
    \/ /\ s # <<>>
       /\ Head(s) = "/"
       /\ \A i \in 2..Len(s) : s[i] = "\n" => i = Len(s)

\* pattern.match(url) for the pattern ^https?://<host>(:\d+)?(/.*)?$
pattern_match(host, url) ==
    \E scheme \in {S_http, S_https} :
        LET prefix == scheme \o S_sep \o host IN
        /\ StartsWith(url, prefix)
        /\ MatchesPathEnd(AfterPort(Drop(url, Len(prefix))))

\* ALLOWED_URL_PATTERNS, each pattern given by the host it names
ALLOWED_URL_PATTERNS == <<S_localhost, S_loopback>>

is_url_allowed(url) ==
    \E i \in 1..Len(ALLOWED_URL_PATTERNS) : pattern_match(ALLOWED_URL_PATTERNS[i], url)

\* urlparse(url): the scheme (lower-cased) and the netloc
SchemeChars == Letters \cup Digits \cup {"+", "-", "."}

RECURSIVE UpToDelimiter(_)
UpToDelimiter(s) ==
    IF s = <<>> \/ Head(s) \in {"/", "?", "#"} THEN <<>>
    ELSE <<Head(s)>> \o UpToDelimiter(Tail(s))

urlparse(url) ==
    LET i == IndexOf(url, ":")
        hasScheme == /\ i > 1
                     /\ url[1] \in Letters
                     /\ \A j \in 1..(i - 1) : url[j] \in SchemeChars
        rest == IF hasScheme THEN Drop(url, i) ELSE url
    IN [scheme |-> IF hasScheme THEN lower(SubSeq(url, 1, i - 1)) ELSE <<>>,
        netloc |-> IF StartsWith(rest, <<"/", "/">>) THEN UpToDelimiter(Drop(rest, 2)) ELSE <<>>]

\* the checks before the upstream request (proxy.py 56-74): the status of the
\* HTTPException raised, 0 when the request goes upstream
proxy_checks_no_allowlist(token_ok, url) ==
    IF ~token_ok THEN 401
    ELSE IF urlparse(url).scheme \notin {S_http, S_https} THEN 400
    ELSE IF urlparse(url).netloc = <<>> THEN 400
    ELSE 0

proxy_checks(token_ok, url) ==
    IF ~token_ok THEN 401
    ELSE IF urlparse(url).scheme \notin {S_http, S_https} THEN 400
    ELSE IF urlparse(url).netloc = <<>> THEN 400
    ELSE IF ~is_url_allowed(url) THEN 403
    ELSE 0

Header(name, value) == [name |-> name, value |-> value]

\* response_headers[key] = value on an insertion-ordered dict
dict_set(d, key, value) ==
    IF \E i \in 1..Len(d) : d[i].name = key
    THEN [i \in 1..Len(d) |-> IF d[i].name = key THEN Header(key, value) ELSE d[i]]
    ELSE Append(d, Header(key, value))

\* the test of the copy loop (proxy.py 94-96)
forward_header_exact_case(key) ==
    key \notin STRIP_HEADERS /\ key \notin SKIP_HEADERS

forward_header(key) ==
    lower(key) \notin STRIP_HEADERS /\ lower(key) \notin SKIP_HEADERS

\* the copy loop (proxy.py 92-97) over response.headers.multi_items()
RECURSIVE build_response_headers(_, _)
build_response_headers(items, response_headers) ==
    IF items = <<>> THEN response_headers
    ELSE build_response_headers(
            Tail(items),
            IF forward_header(Head(items).name)
            THEN dict_set(response_headers, Head(items).name, Head(items).value)
            ELSE response_headers)

\* response.headers.get('content-type'): case-insensitive, "" when absent
RECURSIVE get_content_type(_)
get_content_type(items) ==
    IF items = <<>> THEN ""
    ELSE IF lower(Head(items).name) = H_content_type_lower THEN Head(items).value
    ELSE get_content_type(Tail(items))

Response(status, headers, media_type) ==
    [status |-> status, headers |-> headers, media_type |-> media_type]

\* raise HTTPException(status_code=...)
HTTPException(status) == Response(status, <<>>, "application/json")

NoResponse == Response(0, <<>>, "")

\* URLs clients ask for, URLs upstreams redirect to
RequestUrls ==
    {U_localhost_port, U_loopback_path, U_localhost_bare, U_example,
     U_localhost_suffix, U_userinfo, U_loopback_nodots, U_ftp, U_nohost,
     U_noscheme, U_upper_scheme, U_embedded}
RedirectUrls == {U_loopback_path, U_metadata}

\* header items an upstream answers with
UpstreamHeaders ==
    {<<>>,
     <<Header(H_xfo_mixed, "DENY"), Header(H_content_type, "text/html")>>,
     <<Header(H_xfo_lower, "SAMEORIGIN"), Header(H_csp_upper, "frame-ancestors 'none'"),
       Header(H_connection, "close")>>,
     <<Header(H_cspro_mixed, "default-src 'self'"), Header(H_custom, "1"),
       Header(H_custom, "2"), Header(H_keep_alive, "timeout=5")>>,
     <<Header(H_cspro_lower, "default-src 'self'"), Header(H_csp_lower, "sandbox"),
       Header(H_transfer_encoding, "chunked"), Header(H_content_type_lower, "text/plain")>>}
UpstreamStatuses == {200, 404}

\* proxy_fetch up to the upstream request: the checks, then client.get(url)
ProxyFetchChecks ==
    /\ proxyPc # "fetching"
    /\ proxyCount < MaxProxyRequests
    /\ \E token_ok \in BOOLEAN, url \in RequestUrls :
         LET status == proxy_checks(token_ok, url) IN
         /\ proxyReq' = [token_ok |-> token_ok, url |-> url]
         /\ proxyUpstream' = <<>>
         /\ proxyError' = ""
         /\ IF status # 0
            THEN /\ proxyPc' = "done"
                 /\ proxyOutbound' = <<>>
                 /\ proxyResp' = HTTPException(status)
            ELSE /\ proxyPc' = "fetching"
                 /\ proxyOutbound' = <<url>>
                 /\ proxyResp' = NoResponse
    /\ proxyCount' = proxyCount + 1
    /\ UNCHANGED <<engineVars, runnerVars, dbVars, initVars, execVars, appVars, termVars, enrollVars, imageVars>>

\* the upstream answers with a redirect: follow_redirects=True requests the
\* Location it names
ProxyFetchRedirect ==
    /\ proxyPc = "fetching"
    /\ Len(proxyOutbound) <= MaxRedirects
    /\ \E location \in RedirectUrls :
         proxyOutbound' = Append(proxyOutbound, location)
    /\ UNCHANGED <<proxyPc, proxyReq, proxyUpstream, proxyError, proxyResp, proxyCount>>
    /\ UNCHANGED <<engineVars, runnerVars, dbVars, initVars, execVars, appVars, termVars, enrollVars, imageVars>>

\* the upstream answers: the response is built and returned (proxy.py 91-104)
ProxyFetchResponse ==
    /\ proxyPc = "fetching"
    /\ \E status \in UpstreamStatuses, items \in UpstreamHeaders :
         /\ proxyUpstream' = items
         /\ proxyResp' = Response(status, build_response_headers(items, <<>>),
                                  get_content_type(items))
    /\ proxyPc' = "done"
    /\ UNCHANGED <<proxyReq, proxyOutbound, proxyError, proxyCount>>
    /\ UNCHANGED <<engineVars, runnerVars, dbVars, initVars, execVars, appVars, termVars, enrollVars, imageVars>>

\* what client.get raises: a timeout (httpx.TimeoutException, itself a
\* RequestError), or another httpx.RequestError such as ConnectError or
\* TooManyRedirects
UpstreamErrors == {"TimeoutException", "RequestError"}

\* proxy.py 105-108 with the two except clauses in the other order: the
\* RequestError clause catches the timeout
except_status_request_error_first(error) == 502

\* the except clauses (proxy.py 105-108): httpx.TimeoutException -> 504,
\* any other httpx.RequestError -> 502
except_status(error) == IF error = "TimeoutException" THEN 504 ELSE 502

\* the upstream request fails
ProxyFetchFailure ==
    /\ proxyPc = "fetching"
    /\ \E error \in UpstreamErrors :
         /\ proxyError' = error
         /\ proxyResp' = HTTPException(except_status(error))
    /\ proxyPc' = "done"
    /\ UNCHANGED <<proxyReq, proxyOutbound, proxyUpstream, proxyCount>>
    /\ UNCHANGED <<engineVars, runnerVars, dbVars, initVars, execVars, appVars, termVars, enrollVars, imageVars>>

---------------------------------------------------------------------------
(* JSON text and values: json.loads as run_init uses it *)

\* Python values: a str, an int, true/false/null, a list, a dict (items in
\* insertion order), and None.  Each kind is a record with its own field, so
\* values of different kinds are unequal.
JStr(chars) == [str |-> chars]
JNum(digits) == [num |-> digits]
JLit(word) == [lit |-> word]
JList(items) == [list |-> items]
JObj(members) == [obj |-> members]
None == JLit(<<"n", "u", "l", "l">>)

IsStr(v) == DOMAIN v = {"str"}
IsList(v) == DOMAIN v = {"list"}
IsObj(v) == DOMAIN v = {"obj"}

S_true == <<"t", "r", "u", "e">>
S_false == <<"f", "a", "l", "s", "e">>
S_null == <<"n", "u", "l", "l">>

JsonWhitespace == {" ", "\n", "\t", "\r"}

RECURSIVE skip_ws(_)
skip_ws(s) ==
    IF s # <<>> /\ Head(s) \in JsonWhitespace THEN skip_ws(Tail(s)) ELSE s

ParseFail == [ok |-> FALSE, val |-> None, rest |-> <<>>]
ParseOk(v, rest) == [ok |-> TRUE, val |-> v, rest |-> rest]

\* the text after an opening quote, up to the closing quote
RECURSIVE scan_string(_, _)
scan_string(s, acc) ==
    IF s = <<>> THEN ParseFail
    ELSE IF Head(s) = "\"" THEN ParseOk(JStr(acc), Tail(s))
    ELSE IF Head(s) = "\n" THEN ParseFail
    ELSE IF Head(s) = "\\"
         THEN IF Len(s) >= 2 /\ s[2] \in {"\"", "\\", "/"}
              THEN scan_string(Drop(s, 2), Append(acc, s[2]))
              ELSE ParseFail
    ELSE scan_string(Tail(s), Append(acc, Head(s)))

RECURSIVE TakeDigits(_)
TakeDigits(s) ==
    IF s # <<>> /\ Head(s) \in Digits THEN <<Head(s)>> \o TakeDigits(Tail(s)) ELSE <<>>

\* data[key] = value while a dict is built: a repeated key keeps its place
\* and takes the last value
obj_set(members, key, value) ==
    IF \E i \in 1..Len(members) : members[i].k = key
    THEN [i \in 1..Len(members) |->
            IF members[i].k = key THEN [k |-> key, v |-> value] ELSE members[i]]
    ELSE Append(members, [k |-> key, v |-> value])

RECURSIVE parse_value(_)
RECURSIVE parse_members(_, _)
RECURSIVE parse_elements(_, _)

\* one JSON value at the head of s (after whitespace)
parse_value(s0) ==
    LET s == skip_ws(s0) IN
    IF s = <<>> THEN ParseFail
    ELSE IF Head(s) = "\"" THEN scan_string(Tail(s), <<>>)
    ELSE IF Head(s) = "{"
         THEN LET t == skip_ws(Tail(s)) IN
              IF t # <<>> /\ Head(t) = "}" THEN ParseOk(JObj(<<>>), Tail(t))
              ELSE parse_members(t, <<>>)
    ELSE IF Head(s) = "["
         THEN LET t == skip_ws(Tail(s)) IN
              IF t # <<>> /\ Head(t) = "]" THEN ParseOk(JList(<<>>), Tail(t))
              ELSE parse_elements(t, <<>>)
    ELSE IF Head(s) \in Digits
         THEN IF Head(s) = "0" /\ Len(s) >= 2 /\ s[2] \in Digits THEN ParseOk(JNum(<<"0">>), Tail(s))
              ELSE ParseOk(JNum(TakeDigits(s)), Drop(s, Len(TakeDigits(s))))
    ELSE IF StartsWith(s, S_true) THEN ParseOk(JLit(S_true), Drop(s, 4))
    ELSE IF StartsWith(s, S_false) THEN ParseOk(JLit(S_false), Drop(s, 5))
    ELSE IF StartsWith(s, S_null) THEN ParseOk(JLit(S_null), Drop(s, 4))
    ELSE ParseFail

\* the members of an object, s at the first character of a key
parse_members(s, acc) ==
    IF s = <<>> \/ Head(s) # "\"" THEN ParseFail
    ELSE LET key == scan_string(Tail(s), <<>>) IN
         IF ~key.ok THEN ParseFail
         ELSE LET t == skip_ws(key.rest) IN
              IF t = <<>> \/ Head(t) # ":" THEN ParseFail
              ELSE LET value == parse_value(Tail(t)) IN
                   IF ~value.ok THEN ParseFail
                   ELSE LET u == skip_ws(value.rest)
                            acc2 == obj_set(acc, key.val.str, value.val)
                        IN IF u = <<>> THEN ParseFail
                           ELSE IF Head(u) = "}" THEN ParseOk(JObj(acc2), Tail(u))
                           ELSE IF Head(u) = "," THEN parse_members(skip_ws(Tail(u)), acc2)
                           ELSE ParseFail

\* the elements of an array, s at the first element
parse_elements(s, acc) ==
    LET value == parse_value(s) IN
    IF ~value.ok THEN ParseFail
    ELSE LET u == skip_ws(value.rest)
             acc2 == Append(acc, value.val)
         IN IF u = <<>> THEN ParseFail
            ELSE IF Head(u) = "]" THEN ParseOk(JList(acc2), Tail(u))
            ELSE IF Head(u) = "," THEN parse_elements(Tail(u), acc2)
            ELSE ParseFail

\* json.loads(s): one value and nothing but whitespace after it; ok = FALSE
\* stands for JSONDecodeError
json_loads(s) ==
    LET r == parse_value(s) IN
    IF r.ok /\ skip_ws(r.rest) = <<>> THEN r ELSE ParseFail

\* json.dumps(v): the text of a value, with ", " and ": " between items
RECURSIVE escape(_)
escape(chars) ==
    IF chars = <<>> THEN <<>>
    ELSE (IF Head(chars) \in {"\"", "\\"} THEN <<"\\", Head(chars)>> ELSE <<Head(chars)>>)
         \o escape(Tail(chars))

Quoted(chars) == <<"\"">> \o escape(chars) \o <<"\"">>

RECURSIVE json_dumps(_)
RECURSIVE dumps_items(_, _)
json_dumps(v) ==
    IF DOMAIN v = {"str"} THEN Quoted(v.str)
    ELSE IF DOMAIN v = {"num"} THEN v.num
    ELSE IF DOMAIN v = {"lit"} THEN v.lit
    ELSE IF DOMAIN v = {"list"} THEN <<"[">> \o dumps_items(v.list, FALSE) \o <<"]">>
    ELSE <<"{">> \o dumps_items(v.obj, TRUE) \o <<"}">>

dumps_items(items, keyed) ==
    IF items = <<>> THEN <<>>
    ELSE (IF keyed THEN Quoted(Head(items).k) \o <<":", " ">> \o json_dumps(Head(items).v)
          ELSE json_dumps(Head(items)))
         \o (IF Len(items) > 1 THEN <<",", " ">> ELSE <<>>)
         \o dumps_items(Tail(items), keyed)

\* str.rfind(c) + 1: the last position of character c in s, 0 when absent
LastIndexOf(s, c) ==
    IF \E i \in 1..Len(s) : s[i] = c
    THEN CHOOSE i \in 1..Len(s) : s[i] = c /\ \A j \in (i + 1)..Len(s) : s[j] # c
    ELSE 0

\* bool(v) of a parsed value: None, false, 0, "", [] and {} are falsy
Truthy(v) ==
    IF DOMAIN v = {"str"} THEN v.str # <<>>
    ELSE IF DOMAIN v = {"num"} THEN v.num # <<"0">>
    ELSE IF DOMAIN v = {"lit"} THEN v.lit = S_true
    ELSE IF DOMAIN v = {"list"} THEN v.list # <<>>
    ELSE v.obj # <<>>

\* data.get(key, default) on a dict
dict_get(data, key, default) ==
    IF \E i \in 1..Len(data.obj) : data.obj[i].k = key
    THEN data.obj[CHOOSE i \in 1..Len(data.obj) : data.obj[i].k = key].v
    ELSE default

K_url == <<"u", "r", "l">>
K_cookies == <<"c", "o", "o", "k", "i", "e", "s">>
K_name == <<"n", "a", "m", "e">>
K_value == <<"v", "a", "l", "u", "e">>

---------------------------------------------------------------------------
(* Init orchestrator: run_init (routes/app_container.py) *)

\* request threads of the server (sync handlers run on a thread pool)
Workers == {"w1", "w2"}

\* who calls: the enrollment's owner, an admin, or another user
Callers == {"owner", "admin", "other"}

\* str(n) of a small number
DigitText == <<"0", "1", "2", "3", "4", "5", "6", "7", "8", "9">>
str(n) == IF n \in 0..9 THEN DigitText[n + 1] ELSE "?"

S_init_script == <<".", "/", "i", "n", "i", "t">>

AppImage == "livelabs-app:latest"

\* Track rows: the init script (None is the empty text), the URL template
\* (a str or None), the runner image and the app container image (None is
\* the empty text)
Tracks ==
    {[init_script |-> script, app_url_template |-> template, docker_image |-> RunnerImage,
      app_container_image |-> image] :
        script \in {<<>>, <<" ">>, S_init_script},
        template \in {None, JStr(U_localhost_port)},
        image \in {"", AppImage}}

HasInitScript(t) == t.init_script # <<>> /\ strip(t.init_script) # <<>>

\* the Enrollment columns the core uses, with the column defaults
\* (completed_at is a clock reading, 0 for None)
NewEnrollment ==
    [init_status |-> "pending", init_error |-> <<>>, app_url |-> None,
     app_cookies |-> JList(<<>>), init_completed_at |-> FALSE,
     current_step |-> 1, completed_at |-> 0]

\* the envelope url and one cookie
X_cookie ==
    JObj(<<[k |-> K_name, v |-> JStr(<<"s">>)], [k |-> K_value, v |-> JStr(<<"1">>)]>>)

\* envelopes of the shape {url: string, cookies?: list}
Envelopes ==
    {JObj(<<[k |-> K_url, v |-> JStr(U_example)]>>),
     JObj(<<[k |-> K_url, v |-> JStr(U_example)], [k |-> K_cookies, v |-> JList(<<>>)]>>),
     JObj(<<[k |-> K_url, v |-> JStr(U_example)], [k |-> K_cookies, v |-> JList(<<X_cookie>>)]>>)}

Preambles == {<<"o", "k">>, <<"a", "{", "b">>}

\* stdout of the form preamble + newline + JSON object
EnvelopeStdout(preamble, X) == preamble \o <<"\n">> \o json_dumps(X)

\* stdout of other shapes: no JSON, a JSON list, an object without url
OtherStdouts ==
    {<<"d", "o", "n", "e", "\n">>,
     <<"[", "1", "]">>,
     EnvelopeStdout(<<"o", "k">>, JObj(<<[k |-> K_cookies, v |-> JList(<<>>)]>>))}

\* an object whose url is not a string (run_init takes any truthy url)
NonStringUrlStdouts ==
    {EnvelopeStdout(<<"o", "k">>, JObj(<<[k |-> K_url, v |-> JNum(<<"5">>)]>>))}

InitStdouts ==
    {EnvelopeStdout(pre, X) : pre \in Preambles, X \in Envelopes}
        \cup OtherStdouts \cup NonStringUrlStdouts

\* what the engine does during the init script's run: as for any run_script
\* call, with the init script's stdouts.  run_init reads nothing of the
\* engine, so the behaviours that differ only in what they leave in the
\* engine (SpecRunner covers them) are taken once.
InitBehaviours ==
    {o \in EngineBehaviours(InitStdouts) :
        /\ o.ms = 3
        /\ o.remove = "ok"
        /\ o.run # "start_failed"
        /\ o.code \in {0, 1}
        /\ (o.code # 0 => o.out = <<>>)
        /\ (o.code = 0 => o.err = <<>>)}

\* the response of run_init
InitResponse(status, url, cookies, error) ==
    [status |-> status, url |-> url, cookies |-> cookies, error |-> error]

NoInitResponse == InitResponse("none", None, JList(<<>>), <<>>)

\* what one pass of run_init past the runner writes and returns
\* (app_container.py 186-247)
InitFailed(error) ==
    [init_status |-> "failed", init_error |-> error, writes_url |-> FALSE,
     app_url |-> None, app_cookies |-> JList(<<>>)]

InitSucceeded(url, cookies) ==
    [init_status |-> "success", init_error |-> <<>>, writes_url |-> TRUE,
     app_url |-> url, app_cookies |-> cookies]

\* the text handed to json.loads (app_container.py 196-201): stdout,
\* stripped, from its last "{" on
init_json_text(stdout) ==
    LET stripped == strip(stdout)
        json_start == LastIndexOf(stripped, "{")
    IN IF json_start >= 1 THEN Drop(stripped, json_start - 1) ELSE stripped

\* app_container.py 186-247 applied to the runner's result
run_init_outcome(result) ==
    IF ~result.success
    THEN InitFailed(IF result.stderr # <<>> THEN result.stderr
                    ELSE <<"Script exited with code ", str(result.exit_code)>>)
    ELSE LET parsed == json_loads(init_json_text(result.stdout)) IN
         IF ~parsed.ok
         THEN InitFailed(<<"Invalid JSON output: ", "JSONDecodeError">>)
         ELSE IF ~IsObj(parsed.val)
         THEN \* data.get raises AttributeError: the catch-all except clause
              InitFailed(<<"Unexpected error: ", "object has no attribute 'get'">>)
         ELSE LET url == dict_get(parsed.val, K_url, None)
                  cookies == dict_get(parsed.val, K_cookies, JList(<<>>))
              IN IF ~Truthy(url)
                 THEN InitFailed(<<"Init script did not return a 'url' in JSON output">>)
                 ELSE InitSucceeded(url, cookies)

\* a failure branch that records the error and leaves init_status as it is
CommitOutcomeKeepingStatus(row, outcome) ==
    IF outcome.writes_url
    THEN [row EXCEPT !.init_status = outcome.init_status,
                     !.app_url = outcome.app_url,
                     !.app_cookies = outcome.app_cookies,
                     !.init_completed_at = TRUE]
    ELSE [row EXCEPT !.init_error = outcome.init_error]

\* db.commit() of the fields an outcome sets
CommitOutcome(row, outcome) ==
    IF outcome.writes_url
    THEN [row EXCEPT !.init_status = outcome.init_status,
                     !.app_url = outcome.app_url,
                     !.app_cookies = outcome.app_cookies,
                     !.init_completed_at = TRUE]
    ELSE [row EXCEPT !.init_status = outcome.init_status,
                     !.init_error = outcome.init_error]

OutcomeResponse(outcome) ==
    IF outcome.writes_url
    THEN InitResponse("success", outcome.app_url, outcome.app_cookies, <<>>)
    ELSE InitResponse("failed", None, JList(<<>>), outcome.init_error)

\* get_enrollment_or_404 (app_container.py 17-33): the session loads the row;
\* a caller who is neither the owner nor an admin gets 403
InitLoad(w) ==
    /\ initPc[w] \in {"idle", "returned"}
    /\ initCalls < MaxInitCalls
    /\ initCalls' = initCalls + 1
    /\ \E caller \in Callers :
         IF caller = "other"
         THEN /\ initPc' = [initPc EXCEPT ![w] = "returned"]
              /\ initRet' = [initRet EXCEPT ![w] = InitResponse("403", None, JList(<<>>), <<"Not authorized">>)]
              /\ UNCHANGED initLoaded
         ELSE /\ initPc' = [initPc EXCEPT ![w] = "loaded"]
              /\ initRet' = [initRet EXCEPT ![w] = NoInitResponse]
              /\ initLoaded' = [initLoaded EXCEPT ![w] = enrollment]
    /\ initResult' = [initResult EXCEPT ![w] = NoResult]
    /\ initCid' = [initCid EXCEPT ![w] = 0]
    /\ UNCHANGED <<initLastCommit, dbVars, engineVars, runnerVars, proxyVars, execVars, appVars, termVars, enrollVars, imageVars>>

\* run_init without the check of lines 167-171: an enrollment loaded as
\* running is marked running again and its script runs
InitDecideIgnoringRunning(w) ==
    /\ initPc[w] = "loaded"
    /\ IF ~HasInitScript(track)
       THEN /\ enrollment' = [enrollment EXCEPT !.app_url = track.app_url_template,
                                                !.init_status = "success",
                                                !.init_completed_at = TRUE]
            /\ initLastCommit' = w
            /\ initRet' = [initRet EXCEPT ![w] =
                             InitResponse("success", track.app_url_template, JList(<<>>), <<>>)]
            /\ initPc' = [initPc EXCEPT ![w] = "returned"]
       ELSE IF initLoaded[w].init_status = "success"
       THEN /\ initRet' = [initRet EXCEPT ![w] =
                             InitResponse("success", initLoaded[w].app_url,
                                          initLoaded[w].app_cookies, <<>>)]
            /\ initPc' = [initPc EXCEPT ![w] = "returned"]
            /\ UNCHANGED <<enrollment, initLastCommit>>
       ELSE /\ enrollment' = [enrollment EXCEPT
                                !.init_status = "running",
                                !.init_error = IF initLoaded[w].init_error # <<>>
                                               THEN <<>> ELSE @]
            /\ initLastCommit' = w
            /\ initPc' = [initPc EXCEPT ![w] = "marked"]
            /\ UNCHANGED initRet
    /\ initLoaded' = IF initPc'[w] = "returned"
                     THEN [initLoaded EXCEPT ![w] = NewEnrollment] ELSE initLoaded
    /\ UNCHANGED <<track, initCid, initResult, initCalls>>
    /\ UNCHANGED <<engineVars, runnerVars, proxyVars, execVars, appVars, termVars, enrollVars, imageVars>>

\* run_init 146-176 on the loaded object: no init script, already
\* successful, already running, or mark as running and commit
InitDecide(w) ==
    /\ initPc[w] = "loaded"
    /\ IF ~HasInitScript(track)
       THEN /\ enrollment' = [enrollment EXCEPT !.app_url = track.app_url_template,
                                                !.init_status = "success",
                                                !.init_completed_at = TRUE]
            /\ initLastCommit' = w
            /\ initRet' = [initRet EXCEPT ![w] =
                             InitResponse("success", track.app_url_template, JList(<<>>), <<>>)]
            /\ initPc' = [initPc EXCEPT ![w] = "returned"]
       ELSE IF initLoaded[w].init_status = "success"
       THEN /\ initRet' = [initRet EXCEPT ![w] =
                             InitResponse("success", initLoaded[w].app_url,
                                          initLoaded[w].app_cookies, <<>>)]
            /\ initPc' = [initPc EXCEPT ![w] = "returned"]
            /\ UNCHANGED <<enrollment, initLastCommit>>
       ELSE IF initLoaded[w].init_status = "running"
       THEN /\ initRet' = [initRet EXCEPT ![w] = InitResponse("running", None, JList(<<>>), <<>>)]
            /\ initPc' = [initPc EXCEPT ![w] = "returned"]
            /\ UNCHANGED <<enrollment, initLastCommit>>
       ELSE \* the UPDATE carries the attributes that changed on the object
            /\ enrollment' = [enrollment EXCEPT
                                !.init_status = "running",
                                !.init_error = IF initLoaded[w].init_error # <<>>
                                               THEN <<>> ELSE @]
            /\ initLastCommit' = w
            /\ initPc' = [initPc EXCEPT ![w] = "marked"]
            /\ UNCHANGED initRet
    /\ initLoaded' = IF initPc'[w] = "returned"
                     THEN [initLoaded EXCEPT ![w] = NewEnrollment] ELSE initLoaded
    /\ UNCHANGED <<track, initCid, initResult, initCalls>>
    /\ UNCHANGED <<engineVars, runnerVars, proxyVars, execVars, appVars, termVars, enrollVars, imageVars>>

\* the engine after a run_script call that created container cid
EngineAfterRun(cid, o) ==
    IF EngineCreated(o) /\ ~finally_removes(o)
    THEN [c \in DOMAIN containers \cup {cid} |->
            IF c = cid THEN [name |-> "", status |-> LeftOverStatus(o)] ELSE containers[c]]
    ELSE [c \in DOMAIN containers \ {cid} |-> containers[c]]

\* run_init 178-193 when containers.run raises: run_script returns a
\* synthetic failure at once and the failure is committed
InitRunFails(w) ==
    /\ initPc[w] = "marked"
    /\ \E o \in InitBehaviours :
         /\ o.run # "ok"
         /\ LET ret == run_script(track.init_script, track.docker_image, o)
                outcome == run_init_outcome(ret.result)
            IN /\ initResult' = [initResult EXCEPT ![w] = ret.result]
               /\ enrollment' = CommitOutcome(enrollment, outcome)
               /\ initRet' = [initRet EXCEPT ![w] = OutcomeResponse(outcome)]
               /\ containers' = EngineAfterRun(nextCid, o)
               /\ nextCid' = IF EngineCreated(o) THEN nextCid + 1 ELSE nextCid
    /\ initLastCommit' = w
    /\ initPc' = [initPc EXCEPT ![w] = "returned"]
    /\ initLoaded' = [initLoaded EXCEPT ![w] = NewEnrollment]
    /\ UNCHANGED <<track, initCid, initCalls, runnerVars, proxyVars, execVars, appVars, termVars, enrollVars, imageVars>>

\* run_init 178-184: containers.run starts the container: the init script
\* is executing
InitRunStart(w) ==
    /\ initPc[w] = "marked"
    /\ containers' = [c \in DOMAIN containers \cup {nextCid} |->
                        IF c = nextCid THEN [name |-> "", status |-> "running"]
                        ELSE containers[c]]
    /\ initCid' = [initCid EXCEPT ![w] = nextCid]
    /\ nextCid' = nextCid + 1
    /\ initPc' = [initPc EXCEPT ![w] = "in_runner"]
    /\ UNCHANGED <<initLoaded, initResult, initRet, initLastCommit, initCalls>>
    /\ UNCHANGED <<dbVars, runnerVars, proxyVars, execVars, appVars, termVars, enrollVars, imageVars>>

\* run_init 180-247: run_script returns, the result is parsed and committed
InitRunFinish(w) ==
    /\ initPc[w] = "in_runner"
    /\ \E o \in InitBehaviours :
         /\ o.run = "ok"
         /\ LET ret == run_script(track.init_script, track.docker_image, o)
                outcome == run_init_outcome(ret.result)
            IN /\ initResult' = [initResult EXCEPT ![w] = ret.result]
               /\ enrollment' = CommitOutcome(enrollment, outcome)
               /\ initRet' = [initRet EXCEPT ![w] = OutcomeResponse(outcome)]
               /\ containers' = EngineAfterRun(initCid[w], o)
    /\ initLastCommit' = w
    /\ initPc' = [initPc EXCEPT ![w] = "returned"]
    /\ initLoaded' = [initLoaded EXCEPT ![w] = NewEnrollment]
    /\ initCid' = [initCid EXCEPT ![w] = 0]
    /\ UNCHANGED <<track, nextCid, initCalls, runnerVars, proxyVars, execVars, appVars, termVars, enrollVars, imageVars>>

\* update_track (routes/tracks.py 183-216): an author of the track's
\* organisation sets the track's init script (TrackUpdate.init_script, a
\* text or None); no enrollment is touched
UpdateTrack ==
    /\ \E init_script \in {<<>>, S_init_script} :
         /\ init_script # track.init_script
         /\ track' = [track EXCEPT !.init_script = init_script]
    /\ UNCHANGED <<enrollment, engineVars, runnerVars, proxyVars, initVars, execVars, appVars, termVars, enrollVars, imageVars>>

---------------------------------------------------------------------------
(* The execute route (routes/execute.py) *)

S_setup_script == <<".", "/", "s", "e", "t", "u", "p">>
S_validation_script == <<".", "/", "c", "h", "e", "c", "k">>

\* a Step row: its scripts (None and "" are both the empty text, see
\* `script or ""` at execute.py 80); its order is its index in steps
Step(setup_script, validation_script) ==
    [setup_script |-> setup_script, validation_script |-> validation_script]

\* the steps of the track: a one-step track, and a two-step track whose
\* second step has no setup script
StepLists ==
    {<<Step(S_setup_script, S_validation_script)>>,
     <<Step(S_setup_script, S_validation_script), Step(<<>>, S_validation_script)>>}

\* the path parameter step_order and the body's script_type
StepOrders == 1..3
ScriptTypes == {"setup", "validation", "init"}

\* the checks without the comparison with current_step (execute.py 49-54)
execute_checks_any_step(caller, step_order, script_type, e, step_rows) ==
    IF caller # "owner" THEN 404
    ELSE IF step_order \notin DOMAIN step_rows THEN 404
    ELSE IF script_type \notin {"setup", "validation"} THEN 400
    ELSE 0

\* execute.py 19-65: the status of the HTTPException raised before the
\* Execution row is created, 0 when the request goes on.  The enrollment
\* query is filtered by user_id = current_user.id.
execute_checks(caller, step_order, script_type, e, step_rows) ==
    IF caller # "owner" THEN 404
    ELSE IF step_order \notin DOMAIN step_rows THEN 404
    ELSE IF step_order > e.current_step THEN 403
    ELSE IF script_type \notin {"setup", "validation"} THEN 400
    ELSE 0

\* execute.py 68-73: the Execution row of a request (request is the id of
\* the HTTP request that inserted the row; exit_code and duration_ms are
\* NULL, written -1)
Execution(request, step_id, script_type) ==
    [request |-> request, step_id |-> step_id, script_type |-> script_type,
     status |-> "running", stdout |-> <<>>, stderr |-> <<>>,
     exit_code |-> -1, duration_ms |-> -1]

\* execute.py 86-90 without the status assignment
update_execution_keeps_status(execution, result) ==
    [execution EXCEPT !.stdout = result.stdout,
                      !.stderr = result.stderr,
                      !.exit_code = result.exit_code,
                      !.duration_ms = result.duration_ms]

\* execute.py 86-90: the runner's result is written to the row
update_execution(execution, result) ==
    [execution EXCEPT !.status = IF result.success THEN "success" ELSE "failed",
                      !.stdout = result.stdout,
                      !.stderr = result.stderr,
                      !.exit_code = result.exit_code,
                      !.duration_ms = result.duration_ms]

\* execute.py 92-106: a successful validation of the current step moves
\* the enrollment on; on the last step it stamps completed_at instead
advance(e, step_order, script_type, result, total_steps, utcnow) ==
    IF script_type = "validation" /\ result.success /\ step_order = e.current_step
    THEN IF e.current_step < total_steps
         THEN [enrollment |-> [e EXCEPT !.current_step = e.current_step + 1],
               advanced |-> TRUE]
         ELSE IF e.current_step = total_steps
         THEN [enrollment |-> [e EXCEPT !.completed_at = utcnow], advanced |-> TRUE]
         ELSE [enrollment |-> e, advanced |-> FALSE]
    ELSE [enrollment |-> e, advanced |-> FALSE]

\* the response: schemas.ExecutionResult (execute.py 110-117) with status
\* 200, or the HTTPException
ExecutionResult(http, result, advanced) ==
    [http |-> http, success |-> result.success, stdout |-> result.stdout,
     stderr |-> result.stderr, exit_code |-> result.exit_code,
     duration_ms |-> result.duration_ms, advanced |-> advanced]

NoExecutionResult == ExecutionResult(0, NoResult, FALSE)

NoExecuteRequest == [id |-> 0, caller |-> "owner", step_order |-> 1, script_type |-> "setup"]

\* what the engine does during a step script's run: as for any run_script
\* call.  The route reads nothing of the engine, so the behaviours that
\* differ only in what they leave in the engine (SpecRunner covers them)
\* are taken once.
ExecBehaviours ==
    {o \in EngineBehaviours(PlainStdouts) :
        /\ o.ms \in {3, RunnerTimeout * 1000}
        /\ o.remove = "ok"
        /\ o.run # "start_failed"
        /\ o.code \in {0, 1}
        /\ (o.code # 0 => o.out = <<>>)
        /\ (o.code = 0 => o.err = <<>>)}

\* execute.py 19-76: the checks; a request that passes them gets its
\* Execution row, committed with status "running"
ExecBegin(w) ==
    /\ execPc[w] \in {"idle", "returned"}
    /\ execCalls < MaxExecCalls
    /\ execCalls' = execCalls + 1
    /\ \E caller \in Callers, step_order \in StepOrders, script_type \in ScriptTypes :
         LET http == execute_checks(caller, step_order, script_type, enrollment, steps) IN
         /\ execReq' = [execReq EXCEPT ![w] =
                          [id |-> execCalls + 1, caller |-> caller,
                           step_order |-> step_order, script_type |-> script_type]]
         /\ IF http # 0
            THEN /\ execPc' = [execPc EXCEPT ![w] = "returned"]
                 /\ execRet' = [execRet EXCEPT ![w] = ExecutionResult(http, NoResult, FALSE)]
                 /\ execRow' = [execRow EXCEPT ![w] = 0]
                 /\ UNCHANGED executions
            ELSE /\ execPc' = [execPc EXCEPT ![w] = "running"]
                 /\ execRet' = [execRet EXCEPT ![w] = NoExecutionResult]
                 /\ executions' = Append(executions,
                                         Execution(execCalls + 1, step_order, script_type))
                 /\ execRow' = [execRow EXCEPT ![w] = Len(executions) + 1]
    /\ UNCHANGED <<steps, now>>
    /\ UNCHANGED <<engineVars, runnerVars, proxyVars, dbVars, initVars, appVars, termVars, enrollVars, imageVars>>

\* execute.py 79-117: the script runs, the row and the enrollment are
\* updated and committed together, the result is returned.  The session
\* reloads the enrollment after the commit at line 75, so lines 99-104 act
\* on the row as it is now.
ExecFinish(w) ==
    /\ execPc[w] = "running"
    /\ \E o \in ExecBehaviours :
         LET req == execReq[w]
             step == steps[req.step_order]
             script == IF req.script_type = "setup"
                       THEN step.setup_script ELSE step.validation_script
             ret == run_script(script, track.docker_image, o)
             moved == advance(enrollment, req.step_order, req.script_type,
                              ret.result, Len(steps), now + 1)
         IN /\ executions' = [executions EXCEPT
                                ![execRow[w]] = update_execution(@, ret.result)]
            /\ enrollment' = moved.enrollment
            /\ execRet' = [execRet EXCEPT ![w] =
                             ExecutionResult(200, ret.result, moved.advanced)]
            /\ nextCid' = IF ret.created THEN nextCid + 1 ELSE nextCid
    /\ now' = now + 1
    /\ execPc' = [execPc EXCEPT ![w] = "returned"]
    /\ UNCHANGED <<steps, execReq, execRow, execCalls>>
    /\ UNCHANGED <<track, containers, runnerVars, proxyVars, initVars, appVars, termVars, enrollVars, imageVars>>

---------------------------------------------------------------------------
(* The app container manager (app_container.py) and its routes *)

\* _get_container_name(enrollment.id) for the enrollment, whose id is 1
AppContainerName == "livelabs-app-1"

max_restarts == 3

\* a new row that starts at the cap instead of 0
AppContainerAtCap(container_id, port_map) ==
    [container_id |-> container_id, status |-> "starting", restart_count |-> max_restarts,
     ports |-> port_map]

\* the AppContainer row start_container inserts (app_container.py 137-143)
AppContainer(container_id, port_map) ==
    [container_id |-> container_id, status |-> "starting", restart_count |-> 0,
     ports |-> port_map]

\* a port_def of Track.app_container_ports; host is <<>> for null and <<n>>
\* for the number n
port_def(container, host) == [container |-> container, host |-> host]

\* the ports _find_free_port can return: the kernel's choice for a bind to
\* port 0; the socket is closed on return, so a later call can get the same
EphemeralPorts == {32768, 32769}

\* the port lists of the tracks: none, several dynamic ports, a fixed and
\* a dynamic port, the same fixed port twice, host 0
PortLists ==
    {<<>>,
     <<port_def(80, <<>>), port_def(81, <<>>)>>,
     <<port_def(80, <<32768>>), port_def(81, <<>>)>>,
     <<port_def(80, <<8080>>), port_def(81, <<8080>>)>>,
     <<port_def(80, <<0>>), port_def(81, <<0>>)>>}

\* start_container 79-93: the dict ports after the loop over port_config,
\* where free[i] is what _find_free_port returns for the i-th port_def; a
\* later port_def of the same container port replaces an earlier one.
\* port_map (128-134) has the same values under str(container_port).
RECURSIVE build_ports(_, _, _)
build_ports(port_config, free, n) ==
    IF n = 0 THEN <<>>
    ELSE LET before == build_ports(port_config, free, n - 1)
             pd == port_config[n]
             host_port == IF pd.host = <<>> THEN free[n] ELSE pd.host[1]
         IN [c \in DOMAIN before \cup {pd.container} |->
                IF c = pd.container THEN host_port ELSE before[c]]

\* the engine starts a container with these bindings: HostPort "0" asks
\* the engine for a port of its choice, and no other host port is bound
\* twice ("port is already allocated")
PortsBindable(ports) ==
    \A c1, c2 \in DOMAIN ports :
        (c1 # c2 /\ ports[c1] = ports[c2]) => ports[c1] = 0

\* db.query(AppContainer).filter(enrollment_id == ...).first(): the query
\* has no ORDER BY, so any row of the enrollment can come first
FirstRows == DOMAIN appRows

RowUpdate(rows, id, row) == [r \in DOMAIN rows \cup {id} |-> IF r = id THEN row ELSE rows[r]]
RowDelete(rows, id) == [r \in DOMAIN rows \ {id} |-> rows[r]]

\* except NotFound without the delete
KeepStaleRow(rows, r) == rows

\* except NotFound (_ensure_running 183-186, restart_container 269-272,
\* get_status 328-331): db.delete(app_container) and the commit
DeleteStaleRow(rows, r) == RowDelete(rows, r)

\* the engine: containers.get(name), a container's status set, a container removed
ByName(name) == {c \in DOMAIN containers : containers[c].name = name}
EngineSet(cid, status) == [containers EXCEPT ![cid].status = status]
EngineRemove(cids) == [c \in DOMAIN containers \ cids |-> containers[c]]

\* an engine call returns or raises APIError
ApiOutcomes == {"ok", "api_error"}

\* the response of an app container route
AppResponse(http, status, has_app, can_start) ==
    [http |-> http, status |-> status, has_app |-> has_app, can_start |-> can_start]

NoAppResponse == AppResponse(0, "", FALSE, FALSE)

\* a request a client made and the status it was answered with
AppRequest(op, http) == [op |-> op, http |-> http]

NoAppRequest == AppRequest("", 0)

AppOps == {"start", "restart", "stop", "status"}

\* str(n) of a port number
RECURSIVE port_text(_)
port_text(n) ==
    IF n < 10 THEN <<DigitText[n + 1]>>
    ELSE port_text(n \div 10) \o <<DigitText[(n % 10) + 1]>>

\* str.replace(old, new) for a non-empty old: the occurrences from the left
RECURSIVE replace(_, _, _)
replace(s, old, new) ==
    IF Len(s) < Len(old) THEN s
    ELSE IF StartsWith(s, old) THEN new \o replace(Drop(s, Len(old)), old, new)
    ELSE <<Head(s)>> \o replace(Tail(s), old, new)

S_port_token == <<"{", "p", "o", "r", "t", "}">>
S_port_prefix == <<"{", "p", "o", "r", "t", ":">>
S_localhost_url == <<"h", "t", "t", "p", ":", "/", "/", "l", "o", "c", "a", "l", "h", "o", "s", "t", ":">>

\* _build_app_url 369-372: each {port:<container_port>} is replaced by its
\* host port, for the container ports cs
RECURSIVE replace_ports(_, _, _)
replace_ports(template, ports, cs) ==
    IF cs = {} THEN template
    ELSE LET c == CHOOSE x \in cs : \A y \in cs : x <= y
         IN replace_ports(replace(template, S_port_prefix \o port_text(c) \o <<"}">>,
                                  port_text(ports[c])),
                          ports, cs \ {c})

\* _build_app_url 354-383 for a track without auto-login parameters
\* (auto_login_type none, the column's default): the URL as a str, or None.
\* list(ports.values())[0] is the host port of the container port named
\* first; the port lists name container ports in increasing order.
build_app_url(t, ports) ==
    LET has_ports == DOMAIN ports # {}
        first_port == ports[CHOOSE c \in DOMAIN ports : \A d \in DOMAIN ports : c <= d]
        template == IF Truthy(t.app_url_template) THEN t.app_url_template.str
                    ELSE S_localhost_url \o port_text(first_port)
        substituted == IF has_ports THEN replace(template, S_port_token, port_text(first_port))
                       ELSE template
    IN IF ~Truthy(t.app_url_template) /\ ~has_ports THEN None
       ELSE JStr(IF has_ports THEN replace_ports(substituted, ports, DOMAIN ports)
                 ELSE substituted)

\* get_app_status with the configured URL looked at before the init status
get_app_status_url_first(t, e) ==
    LET has_init_script == HasInitScript(t)
        has_app == has_init_script \/ Truthy(t.app_url_template) \/ t.app_container_image # ""
    IN IF ~has_app THEN "no_app"
       ELSE IF Truthy(t.app_url_template) THEN "ready"
       ELSE IF has_init_script /\ e.init_status = "pending" THEN "needs_init"
       ELSE IF has_init_script /\ e.init_status = "running" THEN "initializing"
       ELSE IF has_init_script /\ e.init_status = "failed" THEN "init_failed"
       ELSE IF has_init_script /\ Truthy(e.app_url) THEN "ready"
       ELSE IF t.app_container_image # "" THEN "container"
       ELSE "no_app"

\* routes/app_container.py 46-128: what get_app_status answers without the
\* manager; "container" when it goes on to get_status
get_app_status(t, e) ==
    LET has_init_script == HasInitScript(t)
        has_app == has_init_script \/ Truthy(t.app_url_template) \/ t.app_container_image # ""
    IN IF ~has_app THEN "no_app"
       ELSE IF has_init_script /\ e.init_status = "pending" THEN "needs_init"
       ELSE IF has_init_script /\ e.init_status = "running" THEN "initializing"
       ELSE IF has_init_script /\ e.init_status = "failed" /\ ~Truthy(t.app_url_template)
       THEN "init_failed"
       ELSE IF Truthy(t.app_url_template) THEN "ready"
       ELSE IF has_init_script /\ Truthy(e.app_url) THEN "ready"
       ELSE IF t.app_container_image # "" THEN "container"
       ELSE "no_app"

\* routes/app_container.py 85-125: the url of the answer; the configured
\* URL comes first and is returned as it is, then the URL the init script
\* printed.  The other answers have no url.
ready_url(t, e) ==
    IF get_app_status(t, e) # "ready" THEN None
    ELSE IF Truthy(t.app_url_template) THEN t.app_url_template
    ELSE e.app_url

\* the routes (routes/app_container.py 46, 260-265, 285-290, 308): the
\* caller's check, then the track's; the request goes on to the manager
AppBegin(w) ==
    /\ appPc[w] \in {"idle", "returned"}
    /\ appCalls < MaxAppCalls
    /\ appCalls' = appCalls + 1
    /\ \E caller \in Callers, op \in AppOps :
         /\ appOp' = [appOp EXCEPT ![w] = op]
         /\ appUrl' = [appUrl EXCEPT ![w] =
                IF enrolled /\ caller # "other" /\ op = "status"
                THEN ready_url(track, enrollment) ELSE None]
         /\ IF ~enrolled
            THEN /\ appPc' = [appPc EXCEPT ![w] = "returned"]
                 /\ appRet' = [appRet EXCEPT ![w] = AppResponse(404, "", FALSE, FALSE)]
            ELSE IF caller = "other"
            THEN /\ appPc' = [appPc EXCEPT ![w] = "returned"]
                 /\ appRet' = [appRet EXCEPT ![w] = AppResponse(403, "", FALSE, FALSE)]
            ELSE IF op \in {"start", "restart"} /\ track.app_container_image = ""
            THEN /\ appPc' = [appPc EXCEPT ![w] = "returned"]
                 /\ appRet' = [appRet EXCEPT ![w] = AppResponse(400, "", FALSE, FALSE)]
            ELSE IF op = "status" /\ get_app_status(track, enrollment) # "container"
            THEN /\ appPc' = [appPc EXCEPT ![w] = "returned"]
                 /\ appRet' = [appRet EXCEPT ![w] =
                        LET s == get_app_status(track, enrollment)
                        IN AppResponse(200, s, s # "no_app", FALSE)]
            ELSE /\ appPc' = [appPc EXCEPT ![w] =
                        IF op = "start" THEN "start_query" ELSE op]
                 /\ appRet' = [appRet EXCEPT ![w] = NoAppResponse]
    /\ appRow' = [appRow EXCEPT ![w] = 0]
    /\ appPrev' = [appPrev EXCEPT ![w] =
            IF appPc[w] = "returned" THEN AppRequest(appOp[w], appRet[w].http)
            ELSE NoAppRequest]
    /\ appPorts' = [appPorts EXCEPT ![w] = <<>>]
    /\ appMissing' = [appMissing EXCEPT ![w] = {}]
    /\ UNCHANGED <<appRows, nextRowId, app_container_ports, enrolled, deleteRet, engineEvents>>
    /\ UNCHANGED <<engineVars, runnerVars, proxyVars, dbVars, initVars, execVars, termVars, enrollVars, imageVars>>

\* the request of thread w ends with an error status
AppFails(w, http) ==
    /\ appPc' = [appPc EXCEPT ![w] = "returned"]
    /\ appRet' = [appRet EXCEPT ![w] = AppResponse(http, "", FALSE, FALSE)]

\* start_container 70-77 and _ensure_running 158-194: the row is looked up;
\* with a row, its container is reused, started again, or found missing
AppStartQuery(w) ==
    /\ appPc[w] = "start_query"
    /\ IF FirstRows = {}
       THEN /\ appPc' = [appPc EXCEPT ![w] = "start_stale"]
            /\ \E free \in [DOMAIN app_container_ports -> EphemeralPorts] :
                 appPorts' = [appPorts EXCEPT ![w] =
                     build_ports(app_container_ports, free, Len(app_container_ports))]
            /\ UNCHANGED <<appRows, containers, appRet, appMissing>>
       ELSE /\ UNCHANGED appPorts
            /\ \E r \in FirstRows, api \in ApiOutcomes :
              LET existing == appRows[r]
                  cid == existing.container_id
              IN /\ appMissing' = [appMissing EXCEPT ![w] =
                        IF cid \notin DOMAIN containers THEN @ \cup {cid} ELSE @]
                 /\ IF cid \notin DOMAIN containers
                    THEN /\ appRows' = DeleteStaleRow(appRows, r)
                         /\ UNCHANGED <<appPc, containers, appRet>>
                    ELSE IF api = "api_error"
                    THEN /\ appRows' = RowUpdate(appRows, r, [existing EXCEPT !.status = "failed"])
                         /\ AppFails(w, 500)
                         /\ UNCHANGED containers
                    ELSE IF containers[cid].status = "running"
                    THEN /\ appRows' = RowUpdate(appRows, r, [existing EXCEPT !.status = "running"])
                         /\ appPc' = [appPc EXCEPT ![w] = "status"]
                         /\ UNCHANGED <<containers, appRet>>
                    ELSE IF containers[cid].status \in {"exited", "dead"}
                    THEN /\ containers' = EngineSet(cid, "running")
                         /\ appRows' = RowUpdate(appRows, r,
                               [existing EXCEPT !.status = "running",
                                                !.restart_count = existing.restart_count + 1])
                         /\ appPc' = [appPc EXCEPT ![w] = "status"]
                         /\ UNCHANGED appRet
                    ELSE /\ appPc' = [appPc EXCEPT ![w] = "status"]
                         /\ UNCHANGED <<appRows, containers, appRet>>
    /\ UNCHANGED <<nextRowId, appOp, appPrev, app_container_ports, enrolled, deleteRet, appRow, appCalls, engineEvents, appUrl, nextCid>>
    /\ UNCHANGED <<runnerVars, proxyVars, dbVars, initVars, execVars, termVars, enrollVars, imageVars>>

\* start_container 102-108: a container that has the name is removed
AppStartStale(w) ==
    /\ appPc[w] = "start_stale"
    /\ \E api \in ApiOutcomes :
         IF api = "api_error"
         THEN /\ AppFails(w, 500)
              /\ UNCHANGED containers
         ELSE /\ containers' = EngineRemove(ByName(AppContainerName))
              /\ appPc' = [appPc EXCEPT ![w] = "start_run"]
              /\ UNCHANGED appRet
    /\ UNCHANGED <<appRows, nextRowId, appOp, appPrev, app_container_ports, enrolled, deleteRet, appPorts, appRow, appCalls, engineEvents, appMissing, appUrl, nextCid>>
    /\ UNCHANGED <<runnerVars, proxyVars, dbVars, initVars, execVars, termVars, enrollVars, imageVars>>

\* start_container 110-146: containers.run under the name (the engine
\* refuses a name in use), then the row is inserted and committed
AppStartRun(w) ==
    /\ appPc[w] = "start_run"
    /\ \E run \in RunOutcomes \ {"conn_error"} :
         IF run \in {"image_not_found", "api_error"} \/ ByName(AppContainerName) # {}
         THEN /\ AppFails(w, 500)
              /\ UNCHANGED <<containers, nextCid, appRows, nextRowId, appRow>>
         ELSE IF run = "start_failed" \/ ~PortsBindable(appPorts[w])
         THEN /\ containers' = [c \in DOMAIN containers \cup {nextCid} |->
                    IF c = nextCid THEN [name |-> AppContainerName, status |-> "created"]
                    ELSE containers[c]]
              /\ nextCid' = nextCid + 1
              /\ AppFails(w, 500)
              /\ UNCHANGED <<appRows, nextRowId, appRow>>
         ELSE /\ containers' = [c \in DOMAIN containers \cup {nextCid} |->
                    IF c = nextCid THEN [name |-> AppContainerName, status |-> "running"]
                    ELSE containers[c]]
              /\ nextCid' = nextCid + 1
              /\ appRows' = RowUpdate(appRows, nextRowId, AppContainer(nextCid, appPorts[w]))
              /\ nextRowId' = nextRowId + 1
              /\ appRow' = [appRow EXCEPT ![w] = nextRowId]
              /\ appPc' = [appPc EXCEPT ![w] = "start_health"]
              /\ UNCHANGED appRet
    /\ UNCHANGED <<appOp, appPrev, app_container_ports, enrolled, deleteRet, appPorts, appCalls, engineEvents, appMissing, appUrl>>
    /\ UNCHANGED <<runnerVars, proxyVars, dbVars, initVars, execVars, termVars, enrollVars, imageVars>>

\* _wait_for_health 196-217: the row is marked running in every branch; the
\* UPDATE of a row another session deleted fails the request
AppStartHealthy(w) ==
    /\ appPc[w] = "start_health"
    /\ IF appRow[w] \in DOMAIN appRows
       THEN /\ appRows' = RowUpdate(appRows, appRow[w],
                                    [appRows[appRow[w]] EXCEPT !.status = "running"])
            /\ appPc' = [appPc EXCEPT ![w] = "status"]
            /\ UNCHANGED appRet
       ELSE /\ AppFails(w, 500)
            /\ UNCHANGED appRows
    /\ UNCHANGED <<nextRowId, appOp, appPrev, app_container_ports, enrolled, deleteRet, appPorts, appRow, appCalls, engineEvents, appMissing, appUrl>>
    /\ UNCHANGED <<engineVars, runnerVars, proxyVars, dbVars, initVars, execVars, termVars, enrollVars, imageVars>>

\* where a request goes when stop_container has returned: the stop route
\* answers (routes/app_container.py 311), restart_container goes on to
\* start_container (app_container.py 255-258)
AfterStop(w) ==
    IF appOp[w] = "stop"
    THEN /\ appPc' = [appPc EXCEPT ![w] = "returned"]
         /\ appRet' = [appRet EXCEPT ![w] = AppResponse(200, "stopped", FALSE, FALSE)]
    ELSE /\ appPc' = [appPc EXCEPT ![w] = "start_query"]
         /\ UNCHANGED appRet

\* stop_container 221-235: the row is looked up and its container stopped
\* and removed; NotFound and APIError are passed over (a failing stop skips
\* the remove)
AppStopEngine(w) ==
    /\ appPc[w] = "stop"
    /\ IF FirstRows = {}
       THEN /\ AfterStop(w)
            /\ UNCHANGED <<containers, appRow>>
       ELSE \E r \in FirstRows, stop \in ApiOutcomes, remove \in ApiOutcomes :
              LET cid == appRows[r].container_id IN
              /\ containers' =
                   IF cid \notin DOMAIN containers \/ stop = "api_error" THEN containers
                   ELSE IF remove = "api_error" THEN EngineSet(cid, "exited")
                   ELSE EngineRemove({cid})
              /\ appRow' = [appRow EXCEPT ![w] = r]
              /\ appPc' = [appPc EXCEPT ![w] = "stop_delete"]
              /\ UNCHANGED appRet
    /\ UNCHANGED <<appRows, nextRowId, appOp, appPrev, app_container_ports, enrolled, deleteRet, appPorts, appCalls, engineEvents, appMissing, appUrl, nextCid>>
    /\ UNCHANGED <<runnerVars, proxyVars, dbVars, initVars, execVars, termVars, enrollVars, imageVars>>

\* stop_container 237-239 without the delete
AppStopKeepsRow(w) ==
    /\ appPc[w] = "stop_delete"
    /\ AfterStop(w)
    /\ UNCHANGED <<appRows, nextRowId, appOp, appPrev, app_container_ports, enrolled, deleteRet, appPorts, appRow, appCalls, engineEvents, appMissing, appUrl>>
    /\ UNCHANGED <<engineVars, runnerVars, proxyVars, dbVars, initVars, execVars, termVars, enrollVars, imageVars>>

\* stop_container 237-239: the row is deleted and the delete committed
AppStopDelete(w) ==
    /\ appPc[w] = "stop_delete"
    /\ appRows' = RowDelete(appRows, appRow[w])
    /\ AfterStop(w)
    /\ UNCHANGED <<nextRowId, appOp, appPrev, app_container_ports, enrolled, deleteRet, appPorts, appRow, appCalls, engineEvents, appMissing, appUrl>>
    /\ UNCHANGED <<engineVars, runnerVars, proxyVars, dbVars, initVars, execVars, termVars, enrollVars, imageVars>>

\* restart_container 243-280: without a row a start; at max_restarts a
\* stop and a start; otherwise the engine restarts the container in place
AppRestart(w) ==
    /\ appPc[w] = "restart"
    /\ IF FirstRows = {}
       THEN /\ appPc' = [appPc EXCEPT ![w] = "start_query"]
            /\ UNCHANGED <<appRows, containers, appRet, appMissing>>
       ELSE \E r \in FirstRows, api \in ApiOutcomes :
              LET app_container == appRows[r]
                  cid == app_container.container_id
              IN /\ appMissing' = [appMissing EXCEPT ![w] =
                        IF app_container.restart_count < max_restarts /\ cid \notin DOMAIN containers THEN @ \cup {cid} ELSE @]
                 /\ IF app_container.restart_count >= max_restarts
                    THEN /\ appPc' = [appPc EXCEPT ![w] = "stop"]
                         /\ UNCHANGED <<appRows, containers, appRet>>
                    ELSE IF cid \notin DOMAIN containers
                    THEN /\ appRows' = DeleteStaleRow(appRows, r)
                         /\ appPc' = [appPc EXCEPT ![w] = "start_query"]
                         /\ UNCHANGED <<containers, appRet>>
                    ELSE IF api = "api_error"
                    THEN /\ appRows' = RowUpdate(appRows, r,
                                                 [app_container EXCEPT !.status = "failed"])
                         /\ AppFails(w, 500)
                         /\ UNCHANGED containers
                    ELSE /\ containers' = EngineSet(cid, "running")
                         /\ appRows' = RowUpdate(appRows, r,
                               [app_container EXCEPT !.status = "running",
                                                     !.restart_count = app_container.restart_count + 1])
                         /\ appPc' = [appPc EXCEPT ![w] = "status"]
                         /\ UNCHANGED appRet
    /\ UNCHANGED <<nextRowId, appOp, appPrev, app_container_ports, enrolled, deleteRet, appPorts, appRow, appCalls, engineEvents, appUrl, nextCid>>
    /\ UNCHANGED <<runnerVars, proxyVars, dbVars, initVars, execVars, termVars, enrollVars, imageVars>>

\* get_status 311-317 without can_start
StoppedNoCanStart == AppResponse(200, "stopped", TRUE, FALSE)

\* get_status 311-317 and 328-337: the answer when the enrollment has no row
StoppedStatus == AppResponse(200, "stopped", TRUE, TRUE)

\* get_status 282-352, which also ends the start and restart routes: the
\* row's status follows a container that is no longer running, a row whose
\* container is missing is deleted
AppStatus(w) ==
    /\ appPc[w] = "status"
    /\ IF FirstRows = {}
       THEN /\ appRet' = [appRet EXCEPT ![w] = StoppedStatus]
            /\ appUrl' = [appUrl EXCEPT ![w] = None]
            /\ UNCHANGED <<appRows, appMissing>>
       ELSE \E r \in FirstRows, api \in ApiOutcomes :
              LET app_container == appRows[r]
                  cid == app_container.container_id
              IN /\ appMissing' = [appMissing EXCEPT ![w] =
                        IF api # "api_error" /\ cid \notin DOMAIN containers THEN @ \cup {cid} ELSE @]
                 /\ IF api = "api_error"
                    THEN /\ appRet' = [appRet EXCEPT ![w] =
                               AppResponse(200, app_container.status, TRUE, FALSE)]
                         /\ UNCHANGED appRows
                    ELSE IF cid \notin DOMAIN containers
                    THEN /\ appRows' = DeleteStaleRow(appRows, r)
                         /\ appRet' = [appRet EXCEPT ![w] = StoppedStatus]
                    ELSE LET actual_status == containers[cid].status
                             status == IF actual_status # "running" /\ app_container.status = "running"
                                       THEN actual_status ELSE app_container.status
                         IN /\ appRows' = RowUpdate(appRows, r, [app_container EXCEPT !.status = status])
                            /\ appRet' = [appRet EXCEPT ![w] = AppResponse(200, status, TRUE, FALSE)]
                 /\ appUrl' = [appUrl EXCEPT ![w] =
                        IF appRet'[w].status = "running"
                        THEN build_app_url(track, app_container.ports) ELSE None]
    /\ appPc' = [appPc EXCEPT ![w] = "returned"]
    /\ UNCHANGED <<nextRowId, appOp, appPrev, app_container_ports, enrolled, deleteRet, appPorts, appRow, appCalls, engineEvents>>
    /\ UNCHANGED <<engineVars, runnerVars, proxyVars, dbVars, initVars, execVars, termVars, enrollVars, imageVars>>

\* routes/enrollments.py 131-150, delete_enrollment, taken while no app
\* container request is in flight.  Only the owner's query finds the row.
\* db.delete(enrollment) deletes the enrollment's executions (models.py 117,
\* cascade); AppContainer.enrollment is declared without a cascade (models.py
\* 226), so the flush sets enrollment_id of the enrollment's AppContainer
\* rows to NULL, which the column refuses (models.py 218): with a row the
\* commit raises and nothing is deleted.  No engine call is made.
DeleteEnrollment ==
    /\ \A w \in Workers : appPc[w] \in {"idle", "returned"}
    /\ \E caller \in Callers :
         IF ~enrolled \/ caller # "owner"
         THEN /\ deleteRet' = 404
              /\ UNCHANGED <<enrolled, enrollments, executions>>
         ELSE IF DOMAIN appRows # {}
         THEN /\ deleteRet' = 500
              /\ UNCHANGED <<enrolled, enrollments, executions>>
         ELSE /\ deleteRet' = 204
              /\ enrolled' = FALSE
              /\ enrollments' = enrollments \ {1}
              /\ executions' = <<>>
    /\ UNCHANGED <<appRows, nextRowId, appPc, appOp, appRow, appRet, appPrev,
                   app_container_ports, appPorts, appCalls, engineEvents, appMissing, appUrl>>
    /\ UNCHANGED <<steps, now, execPc, execReq, execRow, execRet, execCalls>>
    /\ UNCHANGED <<engineVars, runnerVars, proxyVars, dbVars, initVars, termVars, imageVars>>
    /\ UNCHANGED <<nextEnrollmentId, enrollPc, enrollRet, enrollCalls>>

\* outside the program: the app's process ends and its container exits,
\* or an operator removes the container
EngineEvent ==
    /\ engineEvents < MaxEngineEvents
    /\ engineEvents' = engineEvents + 1
    /\ \E cid \in ByName(AppContainerName) :
         \/ /\ containers[cid].status = "running"
            /\ containers' = EngineSet(cid, "exited")
         \/ containers' = EngineRemove({cid})
    /\ UNCHANGED <<appRows, nextRowId, appPc, appOp, appPrev, app_container_ports, enrolled, deleteRet, appPorts, appRow, appRet, appCalls, appMissing, appUrl, nextCid>>
    /\ UNCHANGED <<runnerVars, proxyVars, dbVars, initVars, execVars, termVars, enrollVars, imageVars>>

---------------------------------------------------------------------------
(* The terminal WebSocket (routes/terminal.py) *)

\* the session is over: frames are the last frames sent, code the close code
\* the client gets (1000 from the websocket.close() of the outer finally)
TermEnd(by, frames, code) ==
    /\ termPc' = "closed"
    /\ termEndedBy' = by
    /\ termOut' = termOut \o frames
    /\ termClose' = code

\* the handler's outer except clause (terminal.py 223-227): an error frame
\* is sent when the client can still be reached
ErrorFrames == {<<>>, <<"error">>}

\* terminal.py 106-139: the socket is accepted, the token verified, the
\* enrollment looked up by owner, the track looked up
TermConnect ==
    /\ termPc \in {"idle", "closed"}
    /\ termCount < MaxTermSessions
    /\ termCount' = termCount + 1
    /\ termCid' = 0
    /\ termReader' = "none"
    /\ termStop' = "none"
    /\ \E token_ok \in BOOLEAN, caller \in Callers, has_track \in BOOLEAN :
         IF ~token_ok
         THEN /\ termPc' = "closed"
              /\ termEndedBy' = "bad_token"
              /\ termOut' = <<"error">>
              /\ termClose' = 4001
         ELSE IF caller # "owner"
         THEN /\ termPc' = "closed"
              /\ termEndedBy' = "no_enrollment"
              /\ termOut' = <<"error">>
              /\ termClose' = 4004
         ELSE IF ~has_track
         THEN /\ termPc' = "closed"
              /\ termEndedBy' = "no_track"
              /\ termOut' = <<"error">>
              /\ termClose' = 4004
         ELSE /\ termPc' = "verified"
              /\ termEndedBy' = "none"
              /\ termOut' = <<>>
              /\ termClose' = 0
    /\ UNCHANGED <<engineVars, runnerVars, proxyVars, dbVars, initVars, execVars, appVars, enrollVars, imageVars>>

\* terminal.py 141-169: containers.run(detach=True); any exception ends the
\* session with an error frame and close code 4500
TermCreateContainer ==
    /\ termPc = "verified"
    /\ \E run \in RunOutcomes :
         IF run = "ok"
         THEN /\ containers' = [c \in DOMAIN containers \cup {nextCid} |->
                    IF c = nextCid THEN [name |-> "", status |-> "running"]
                    ELSE containers[c]]
              /\ nextCid' = nextCid + 1
              /\ termCid' = nextCid
              /\ termPc' = "container"
              /\ UNCHANGED <<termOut, termClose, termEndedBy>>
         ELSE /\ IF run = "start_failed"
                 THEN /\ containers' = [c \in DOMAIN containers \cup {nextCid} |->
                            IF c = nextCid THEN [name |-> "", status |-> "created"]
                            ELSE containers[c]]
                      /\ nextCid' = nextCid + 1
                 ELSE UNCHANGED <<containers, nextCid>>
              /\ TermEnd("run_failed", <<"error">>, 4500)
              /\ UNCHANGED termCid
    /\ UNCHANGED <<termReader, termStop, termCount>>
    /\ UNCHANGED <<runnerVars, proxyVars, dbVars, initVars, execVars, appVars, enrollVars, imageVars>>

\* terminal.py 171-192: exec_create and exec_start; on a failure the
\* container is force-removed (a remove that raises goes to the outer
\* except clause) and the session ends
TermExec ==
    /\ termPc = "container"
    /\ \E exec \in ApiOutcomes, remove \in ApiOutcomes, frames \in ErrorFrames :
         IF exec = "ok"
         THEN /\ termPc' = "exec"
              /\ UNCHANGED <<containers, termOut, termClose, termEndedBy>>
         ELSE IF remove = "ok"
         THEN /\ containers' = EngineRemove({termCid})
              /\ TermEnd("exec_failed", <<"error">>, 4500)
         ELSE /\ TermEnd("exec_failed", frames, 1000)
              /\ UNCHANGED containers
    /\ UNCHANGED <<nextCid, termCid, termReader, termStop, termCount>>
    /\ UNCHANGED <<runnerVars, proxyVars, dbVars, initVars, execVars, appVars, enrollVars, imageVars>>

\* terminal.py 195 and TerminalSession.__init__ (23-29): the session
\* object is built; setblocking on the engine's socket can raise, which
\* goes to the outer except clause
TermBuildSession ==
    /\ termPc = "exec"
    /\ \E built \in BOOLEAN, frames \in ErrorFrames :
         IF built
         THEN /\ termPc' = "session"
              /\ UNCHANGED <<termOut, termClose, termEndedBy>>
         ELSE TermEnd("build_failed", frames, 1000)
    /\ UNCHANGED <<termCid, termReader, termStop, termCount>>
    /\ UNCHANGED <<engineVars, runnerVars, proxyVars, dbVars, initVars, execVars, appVars, enrollVars, imageVars>>

\* terminal.py 199-202: the ready frame is sent and the reader task
\* created; a send that raises (the client has gone) goes to the outer
\* except clause, whose error frame cannot be sent either
TermSendReady ==
    /\ termPc = "session"
    /\ \E sent \in BOOLEAN :
         IF sent
         THEN /\ termOut' = Append(termOut, "ready")
              /\ termReader' = "reading"
              /\ termPc' = "ready"
              /\ UNCHANGED <<termClose, termEndedBy>>
         ELSE /\ TermEnd("ready_failed", <<>>, 1000)
              /\ UNCHANGED termReader
    /\ UNCHANGED <<termCid, termStop, termCount>>
    /\ UNCHANGED <<engineVars, runnerVars, proxyVars, dbVars, initVars, execVars, appVars, enrollVars, imageVars>>

\* read_output 30-55: a chunk of PTY output is received and sent on
TermReaderOutput ==
    /\ termPc = "ready"
    /\ termReader = "reading"
    /\ Len(SelectSeq(termOut, LAMBDA f : f = "output")) < MaxOutputFrames
    /\ termOut' = Append(termOut, "output")
    /\ UNCHANGED <<termPc, termCid, termClose, termReader, termEndedBy, termStop, termCount>>
    /\ UNCHANGED <<engineVars, runnerVars, proxyVars, dbVars, initVars, execVars, appVars, enrollVars, imageVars>>

\* read_output 45-53: the stream reaches EOF (the shell exits) or recv or
\* send raises: the reader task ends; the handler is not told
TermReaderEnds ==
    /\ termPc = "ready"
    /\ termReader = "reading"
    /\ termReader' = "done"
    /\ UNCHANGED <<termPc, termCid, termOut, termClose, termEndedBy, termStop, termCount>>
    /\ UNCHANGED <<engineVars, runnerVars, proxyVars, dbVars, initVars, execVars, appVars, enrollVars, imageVars>>

\* the client's frames: terminal.py 205-218
ClientFrames == {"input", "resize", "close", "malformed", "incomplete", "disconnect"}

\* terminal.py 204-221 and TerminalSession.close (76-87): a client frame is
\* handled.  input and resize keep the session; close, a disconnect and a
\* frame that makes json.loads or data[...] raise end it: the reader task's
\* cancellation is requested and, in the same turn of the event loop, the
\* container is stopped and removed in one try block (a stop that raises
\* skips the remove).  A frame that raised then goes to the outer except
\* clause.
TermClientFrame ==
    /\ termPc = "ready"
    /\ \E frame \in ClientFrames, stop \in ApiOutcomes, remove \in ApiOutcomes,
          frames \in ErrorFrames :
         IF frame \in {"input", "resize"}
         THEN UNCHANGED <<containers, termPc, termOut, termClose, termReader,
                          termEndedBy, termStop>>
         ELSE /\ termStop' = termReader
              /\ termReader' = IF termReader = "reading" THEN "cancelled" ELSE termReader
              /\ containers' =
                   IF termCid \notin DOMAIN containers \/ stop = "api_error" THEN containers
                   ELSE IF remove = "api_error" THEN EngineSet(termCid, "exited")
                   ELSE EngineRemove({termCid})
              /\ IF frame \in {"malformed", "incomplete"}
                 THEN TermEnd(frame, frames, 1000)
                 ELSE TermEnd(IF frame = "close" THEN "close_frame" ELSE frame, <<>>, 1000)
    /\ UNCHANGED <<nextCid, termCid, termCount>>
    /\ UNCHANGED <<runnerVars, proxyVars, dbVars, initVars, execVars, appVars, enrollVars, imageVars>>

---------------------------------------------------------------------------
(* Enrollments: create_enrollment and delete_enrollment (routes/enrollments.py) *)

\* what the checks before and after the query for an existing enrollment
\* find: the track of the slug (29-37), its availability (40-44), the
\* required environment variables (59-65)
EnrollInputs == {"ok", "no_track", "not_available", "missing_vars"}

\* create_enrollment 29-65: the track checks, then the query for an
\* existing enrollment of (user, track); the request goes on to the insert
\* when there is none
EnrollCheck(w) ==
    /\ enrollPc[w] \in {"idle", "returned"}
    /\ enrollCalls < MaxEnrollCalls
    /\ enrollCalls' = enrollCalls + 1
    /\ \E input \in EnrollInputs :
         IF input = "no_track"
         THEN /\ enrollPc' = [enrollPc EXCEPT ![w] = "returned"]
              /\ enrollRet' = [enrollRet EXCEPT ![w] = 404]
         ELSE IF input = "not_available"
         THEN /\ enrollPc' = [enrollPc EXCEPT ![w] = "returned"]
              /\ enrollRet' = [enrollRet EXCEPT ![w] = 403]
         ELSE IF enrollments # {} \/ input = "missing_vars"
         THEN /\ enrollPc' = [enrollPc EXCEPT ![w] = "returned"]
              /\ enrollRet' = [enrollRet EXCEPT ![w] = 400]
         ELSE /\ enrollPc' = [enrollPc EXCEPT ![w] = "insert"]
              /\ enrollRet' = [enrollRet EXCEPT ![w] = 0]
    /\ UNCHANGED <<enrollments, nextEnrollmentId>>
    /\ UNCHANGED <<engineVars, runnerVars, proxyVars, dbVars, initVars, execVars, appVars, termVars, imageVars>>

\* create_enrollment 67-76: the row is inserted and committed; the table
\* has no unique constraint on (user_id, track_id) (models.py 97-117)
EnrollInsert(w) ==
    /\ enrollPc[w] = "insert"
    /\ enrollments' = enrollments \cup {nextEnrollmentId}
    /\ nextEnrollmentId' = nextEnrollmentId + 1
    /\ enrolled' = (1 \in enrollments')
    /\ enrollPc' = [enrollPc EXCEPT ![w] = "returned"]
    /\ enrollRet' = [enrollRet EXCEPT ![w] = 201]
    /\ UNCHANGED enrollCalls
    /\ UNCHANGED <<appRows, nextRowId, appPc, appOp, appRow, appRet, appPrev,
                   app_container_ports, appPorts, deleteRet, appCalls, engineEvents, appMissing, appUrl>>
    /\ UNCHANGED <<engineVars, runnerVars, proxyVars, dbVars, initVars, execVars, termVars, imageVars>>

\* delete_enrollment 131-150 for the enrollment id: 404 without the row,
\* else the row is deleted and the delete committed (the enrollment has no
\* AppContainer row here)
Unenroll(w) ==
    /\ enrollPc[w] \in {"idle", "returned"}
    /\ enrollCalls < MaxEnrollCalls
    /\ enrollCalls' = enrollCalls + 1
    /\ \E id \in 1..(nextEnrollmentId - 1) :
         IF id \in enrollments
         THEN /\ enrollments' = enrollments \ {id}
              /\ enrollRet' = [enrollRet EXCEPT ![w] = 204]
         ELSE /\ enrollRet' = [enrollRet EXCEPT ![w] = 404]
              /\ UNCHANGED enrollments
    /\ enrolled' = (1 \in enrollments')
    /\ enrollPc' = [enrollPc EXCEPT ![w] = "returned"]
    /\ UNCHANGED nextEnrollmentId
    /\ UNCHANGED <<appRows, nextRowId, appPc, appOp, appRow, appRet, appPrev,
                   app_container_ports, appPorts, deleteRet, appCalls, engineEvents, appMissing, appUrl>>
    /\ UNCHANGED <<engineVars, runnerVars, proxyVars, dbVars, initVars, execVars, termVars, imageVars>>

---------------------------------------------------------------------------
(* The image manager (infrastructure.py, ImageManager) for one image *)

\* the threads that run ImageManager code: the request threads and the
\* threads pull_image_async starts with threading.Thread (116-117)
PullThreads == {"p1", "p2", "p3", "p4"}
ImageThreads == Workers \cup PullThreads

\* the statuses pull_image records when the engine's pull has ended
\* (83-85 through get_image_status, 87-95, 96-104); the image is not
\* removed from the engine while it is pulled
FinalPullStatuses == {"available", "not_found", "error"}

OtherImageVars == <<engineVars, runnerVars, proxyVars, dbVars, initVars, execVars, appVars,
                    termVars, enrollVars>>

\* pull_image_async 107-117: under the lock, an entry that says pulling is
\* returned; otherwise the lock is released and a thread is started
pull_image_async(w) ==
    /\ imgPc[w] = "idle"
    /\ imgCalls < MaxImageCalls
    /\ imgCalls' = imgCalls + 1
    /\ IF pull_status = "pulling"
       THEN UNCHANGED imgPc
       ELSE \E p \in PullThreads :
              /\ imgPc[p] = "unused"
              /\ imgPc' = [imgPc EXCEPT ![w] = "started", ![p] = "begin"]
    /\ UNCHANGED pull_status
    /\ UNCHANGED OtherImageVars

\* pull_image_async 119-125: under the lock again, the entry is set to
\* pulling and returned
pull_image_async_record(w) ==
    /\ imgPc[w] = "started"
    /\ pull_status' = "pulling"
    /\ imgPc' = [imgPc EXCEPT ![w] = "idle"]
    /\ UNCHANGED imgCalls
    /\ UNCHANGED OtherImageVars

\* pull_image 73-83: the entry is set to pulling under the lock and the
\* engine's pull begins; run by a pull thread (113-114) or called by a
\* request thread
pull_image(t) ==
    /\ \/ imgPc[t] = "begin" /\ UNCHANGED imgCalls
       \/ /\ imgPc[t] = "idle"
          /\ imgCalls < MaxImageCalls
          /\ imgCalls' = imgCalls + 1
    /\ pull_status' = "pulling"
    /\ imgPc' = [imgPc EXCEPT ![t] = "pulling"]
    /\ UNCHANGED OtherImageVars

\* pull_image 83-105: the engine's pull has ended; its outcome is recorded
\* under the lock and returned
pull_image_done(t) ==
    /\ imgPc[t] = "pulling"
    /\ \E status \in FinalPullStatuses : pull_status' = status
    /\ imgPc' = [imgPc EXCEPT ![t] = IF t \in Workers THEN "idle" ELSE "done"]
    /\ UNCHANGED imgCalls
    /\ UNCHANGED OtherImageVars

---------------------------------------------------------------------------
(* Initial state and specifications *)

\* tracks with an app container image and a URL template with placeholders
\* (models.py 57: "http://localhost:{port}")
U_port_template == S_localhost_url \o S_port_token \o <<"/">> \o S_port_prefix \o <<"8", "1", "}">>

UrlTracks ==
    {[init_script |-> <<>>, app_url_template |-> JStr(U_port_template),
      docker_image |-> RunnerImage, app_container_image |-> AppImage]}

\* the app_containers table of an enrollment whose container was started
\* and then restarted max_restarts times (start_container 137-146, which
\* leaves the row running, and restart_container 263-267 three times)
RowAtMaxRestarts ==
    <<[AppContainer(1, <<>>) EXCEPT !.status = "running", !.restart_count = max_restarts]>>

Init ==
    /\ runCalls = 0
    /\ runLast = NoRun
    /\ proxyPc = "idle"
    /\ proxyReq = [token_ok |-> FALSE, url |-> <<>>]
    /\ proxyOutbound = <<>>
    /\ proxyUpstream = <<>>
    /\ proxyError = ""
    /\ proxyResp = NoResponse
    /\ proxyCount = 0
    /\ track \in Tracks \cup UrlTracks
    /\ enrollment = NewEnrollment
    /\ initPc = [w \in Workers |-> "idle"]
    /\ initLoaded = [w \in Workers |-> NewEnrollment]
    /\ initCid = [w \in Workers |-> 0]
    /\ initResult = [w \in Workers |-> NoResult]
    /\ initRet = [w \in Workers |-> NoInitResponse]
    /\ initLastCommit = "none"
    /\ initCalls = 0
    /\ steps \in StepLists
    /\ executions = <<>>
    /\ now = 0
    /\ execPc = [w \in Workers |-> "idle"]
    /\ execReq = [w \in Workers |-> NoExecuteRequest]
    /\ execRow = [w \in Workers |-> 0]
    /\ execRet = [w \in Workers |-> NoExecutionResult]
    /\ execCalls = 0
    /\ appRows \in {<<>>, RowAtMaxRestarts}
    /\ nextRowId = Len(appRows) + 1
    /\ containers = IF appRows = <<>> THEN <<>>
                    ELSE <<[name |-> AppContainerName, status |-> "running"]>>
    /\ nextCid = Len(containers) + 1
    /\ appPc = [w \in Workers |-> "idle"]
    /\ appOp = [w \in Workers |-> "status"]
    /\ appRow = [w \in Workers |-> 0]
    /\ appRet = [w \in Workers |-> NoAppResponse]
    /\ appPrev = [w \in Workers |-> NoAppRequest]
    /\ app_container_ports \in PortLists
    /\ appPorts = [w \in Workers |-> <<>>]
    /\ enrolled = TRUE
    /\ deleteRet = 0
    /\ appCalls = 0
    /\ engineEvents = 0
    /\ appMissing = [w \in Workers |-> {}]
    /\ appUrl = [w \in Workers |-> None]
    /\ termPc = "idle"
    /\ termCid = 0
    /\ termOut = <<>>
    /\ termClose = 0
    /\ termReader = "none"
    /\ termEndedBy = "none"
    /\ termStop = "none"
    /\ termCount = 0
    /\ enrollments = {1}
    /\ nextEnrollmentId = 2
    /\ enrollPc = [w \in Workers |-> "idle"]
    /\ enrollRet = [w \in Workers |-> 0]
    /\ enrollCalls = 0
    /\ pull_status = ""
    /\ imgPc = [t \in ImageThreads |-> IF t \in Workers THEN "idle" ELSE "unused"]
    /\ imgCalls = 0

\* the rows a component does not read, fixed
OneTrack == [init_script |-> S_init_script, app_url_template |-> None,
             docker_image |-> RunnerImage, app_container_image |-> ""]
OneStepList == <<Step(S_setup_script, S_validation_script)>>

InitRunner == Init /\ appRows = <<>> /\ app_container_ports = <<>> /\ track = OneTrack /\ steps = OneStepList

NextRunner == RunnerCall

SpecRunner == InitRunner /\ [][NextRunner]_vars

NextProxy ==
    \/ ProxyFetchChecks
    \/ ProxyFetchRedirect
    \/ ProxyFetchResponse
    \/ ProxyFetchFailure

InitProxy == Init /\ appRows = <<>> /\ app_container_ports = <<>> /\ track = OneTrack /\ steps = OneStepList

SpecProxy == InitProxy /\ [][NextProxy]_vars

NextInit ==
    \E w \in Workers :
        \/ InitLoad(w)
        \/ InitDecide(w)
        \/ InitRunFails(w)
        \/ InitRunStart(w)
        \/ InitRunFinish(w)

InitOfInit == Init /\ appRows = <<>> /\ app_container_ports = <<>> /\ steps = OneStepList /\ track.app_container_image = ""

SpecInit == InitOfInit /\ [][NextInit]_vars

\* run_init while the track is being edited
NextTrackEdit ==
    \/ NextInit
    \/ UpdateTrack

SpecTrackEdit == InitOfInit /\ [][NextTrackEdit]_vars

NextExecute ==
    \E w \in Workers :
        \/ ExecBegin(w)
        \/ ExecFinish(w)

InitExecute == Init /\ appRows = <<>> /\ app_container_ports = <<>> /\ track = OneTrack

SpecExecute == InitExecute /\ [][NextExecute]_vars

NextApp ==
    \/ \E w \in Workers :
        \/ AppBegin(w)
        \/ AppStartQuery(w)
        \/ AppStartStale(w)
        \/ AppStartRun(w)
        \/ AppStartHealthy(w)
        \/ AppStopEngine(w)
        \/ AppStopDelete(w)
        \/ AppRestart(w)
        \/ AppStatus(w)
    \/ EngineEvent

\* a track with an app container image and neither init script nor URL template
InitApp ==
    /\ Init
    /\ appRows = <<>>
    /\ app_container_ports = <<>>
    /\ track = [init_script |-> <<>>, app_url_template |-> None,
                docker_image |-> RunnerImage, app_container_image |-> AppImage]
    /\ steps = OneStepList

SpecApp == InitApp /\ [][NextApp]_vars

\* the tracks with an app and no init script: an app container image, a
\* URL template, or both
AppTracks == {t \in Tracks : t.init_script = <<>> /\ get_app_status(t, NewEnrollment) # "no_app"}

InitAppTracks ==
    /\ Init
    /\ appRows = <<>>
    /\ app_container_ports = <<>>
    /\ track \in AppTracks
    /\ steps = OneStepList

SpecAppTracks == InitAppTracks /\ [][NextApp]_vars

NextAppDelete == NextApp \/ DeleteEnrollment

SpecAppDelete == InitApp /\ [][NextAppDelete]_vars

NextEnroll ==
    \E w \in Workers :
        \/ EnrollCheck(w)
        \/ EnrollInsert(w)
        \/ Unenroll(w)

InitEnroll == Init /\ appRows = <<>> /\ app_container_ports = <<>> /\ track = OneTrack /\ steps = OneStepList

SpecEnroll == InitEnroll /\ [][NextEnroll]_vars

\* a container track with each of the port lists
InitAppPorts ==
    /\ Init
    /\ appRows = <<>>
    /\ track = [init_script |-> <<>>, app_url_template |-> None,
                docker_image |-> RunnerImage, app_container_image |-> AppImage]
    /\ steps = OneStepList

SpecAppPorts == InitAppPorts /\ [][NextApp]_vars

\* a container track whose enrollment has a running container and a row
\* that has reached max_restarts
InitAppRestart ==
    /\ Init
    /\ appRows = RowAtMaxRestarts
    /\ app_container_ports = <<>>
    /\ track = [init_script |-> <<>>, app_url_template |-> None,
                docker_image |-> RunnerImage, app_container_image |-> AppImage]
    /\ steps = OneStepList

SpecAppRestart == InitAppRestart /\ [][NextApp]_vars

\* a track with a URL template with placeholders, a fixed and a dynamic port
InitAppUrl ==
    /\ Init
    /\ appRows = <<>>
    /\ app_container_ports = <<port_def(80, <<32768>>), port_def(81, <<>>)>>
    /\ track \in UrlTracks
    /\ steps = OneStepList

SpecAppUrl == InitAppUrl /\ [][NextApp]_vars

\* the init orchestrator together with a client that polls the status of
\* the app
NextAppInit ==
    \/ NextInit
    \/ AppBegin("w1") /\ appOp'["w1"] = "status" /\ appCalls < MaxStatusQueries

SpecAppInit == InitOfInit /\ [][NextAppInit]_vars

NextTerminal ==
    \/ TermConnect
    \/ TermCreateContainer
    \/ TermExec
    \/ TermBuildSession
    \/ TermSendReady
    \/ TermReaderOutput
    \/ TermReaderEnds
    \/ TermClientFrame

InitTerminal == Init /\ appRows = <<>> /\ app_container_ports = <<>> /\ track = OneTrack /\ steps = OneStepList

SpecTerminal == InitTerminal /\ [][NextTerminal]_vars

NextImages ==
    \/ \E w \in Workers : pull_image_async(w) \/ pull_image_async_record(w)
    \/ \E t \in ImageThreads : pull_image(t) \/ pull_image_done(t)

InitImages == Init /\ appRows = <<>> /\ app_container_ports = <<>> /\ track = OneTrack /\ steps = OneStepList

SpecImages == InitImages /\ [][NextImages]_vars

\* the steps the server takes by itself: the handler's setup and the reader
\* task.  A connection and a client frame are the client's to make.
TermServerStep ==
    \/ TermCreateContainer
    \/ TermExec
    \/ TermBuildSession
    \/ TermSendReady
    \/ TermReaderOutput
    \/ TermReaderEnds

\* the event loop runs every task that can run; the client need not act
SpecTerminalLive == InitTerminal /\ [][NextTerminal]_vars /\ WF_vars(TermServerStep)

---------------------------------------------------------------------------
(* Properties of the script runner *)

\* the last call went into the engine (the script was not empty)
RunnerReturned == runLast.called /\ runLast.ret.engine_called

\* C4 (as claimed): after run_script returns by any path, the container the
\* engine created for the call no longer exists in the engine.
C4_ContainerGoneAfterReturn ==
    (RunnerReturned /\ runLast.ret.created) => runLast.cid \notin DOMAIN containers

\* C5 (as claimed): when the container does not finish within the deadline,
\* run_script returns success = false, exit_code = 124 and a stderr that
\* names the timeout, and the container has been killed and removed.
C5_TimeoutReturns124 ==
    (RunnerReturned /\ runLast.ret.timed_out) =>
        /\ runLast.ret.result.success = FALSE
        /\ runLast.ret.result.exit_code = 124
        /\ runLast.ret.result.stderr # <<>>
        /\ runLast.ret.result.stderr[Len(runLast.ret.result.stderr)] = "Read timed out"
        /\ runLast.cid \notin DOMAIN containers

ResultFields == {"success", "stdout", "stderr", "exit_code", "duration_ms"}

SyntheticFailure(r, prefix) ==
    /\ r.success = FALSE
    /\ r.exit_code = 1
    /\ r.stderr # <<>>
    /\ Head(r.stderr) = prefix

\* C6: run_script never raises: for every engine behaviour it returns a
\* record {success, stdout, stderr, exit_code, duration_ms}; image-not-found,
\* an engine API error and any other runtime error each give success = false,
\* exit_code = 1 and a stderr that starts with "Docker image not found: ",
\* "Docker API error: " or "Execution error: ".
C6_RunnerNeverRaises ==
    runLast.called =>
        LET o == runLast.o
            r == runLast.ret.result
        IN /\ runLast.ret.raised = FALSE
           /\ DOMAIN r = ResultFields
           /\ r.success \in BOOLEAN
           /\ r.exit_code \in Nat
           /\ r.duration_ms \in Nat
           /\ runLast.ret.engine_called =>
                /\ o.run = "image_not_found" => SyntheticFailure(r, "Docker image not found: ")
                /\ (\/ o.run \in {"api_error", "start_failed"}
                    \/ o.run = "ok" /\ o.wait = "api_error"
                    \/ o.run = "ok" /\ o.wait = "exit" /\ o.logs = "api_error")
                       => SyntheticFailure(r, "Docker API error: ")
                /\ (\/ o.run = "conn_error"
                    \/ o.run = "ok" /\ o.wait = "timeout")
                       => SyntheticFailure(r, "Execution error: ")

\* a call that ended in the catch-all except clause
C6_Witness == RunnerReturned /\ runLast.ret.path = "Exception" /\ runLast.o.run = "conn_error"

\* C24: run_script on an empty or whitespace-only script returns
\* success = true, exit_code = 0, empty stdout and stderr, and makes no
\* engine call: no container is created.
C24_EmptyScriptNoEngine ==
    (runLast.called /\ \A i \in 1..Len(runLast.script) : runLast.script[i] \in Whitespace) =>
        /\ runLast.ret.result.success
        /\ runLast.ret.result.exit_code = 0
        /\ runLast.ret.result.stdout = <<>>
        /\ runLast.ret.result.stderr = <<>>
        /\ ~runLast.ret.raised
        /\ ~runLast.ret.engine_called
        /\ runLast.cid = 0

\* a whitespace-only script was run while the engine would have failed the run
C24_Witness ==
    /\ runLast.called
    /\ runLast.script = <<" ", "\n">>
    /\ runLast.o.run = "api_error"
    /\ runLast.ret.result.success
    /\ containers = <<>>

---------------------------------------------------------------------------
(* Properties of the embedding proxy *)

ProxyReturned == proxyPc = "done"

\* C7 (as claimed): for any URL that matches no allow-list pattern,
\* proxy_fetch returns 403 and performs no outbound request (stated for
\* requests that carry a valid token).
C7_NotAllowedIs403 ==
    (ProxyReturned /\ proxyReq.token_ok /\ ~is_url_allowed(proxyReq.url)) =>
        proxyResp.status = 403 /\ proxyOutbound = <<>>

\* C7 (amended): for any URL that matches no allow-list pattern, proxy_fetch
\* performs no outbound request and returns 401 when the token is invalid,
\* otherwise 400 when the scheme is not http(s) or the host is empty,
\* otherwise 403.
C7_NotAllowedIsRejected ==
    (ProxyReturned /\ ~is_url_allowed(proxyReq.url)) =>
        /\ proxyOutbound = <<>>
        /\ proxyResp.status =
             IF ~proxyReq.token_ok THEN 401
             ELSE IF \/ urlparse(proxyReq.url).scheme \notin {S_http, S_https}
                     \/ urlparse(proxyReq.url).netloc = <<>>
                  THEN 400
             ELSE 403

\* a valid token, an http URL with a host, not on the allow-list: 403
C7_Witness ==
    /\ ProxyReturned
    /\ proxyReq.token_ok
    /\ proxyReq.url = U_localhost_suffix
    /\ proxyResp.status = 403
    /\ proxyOutbound = <<>>

\* C8 (as claimed): every outbound request of the proxy, the requests made
\* while following redirects included, targets an allow-listed URL.
C8_OutboundAllowListed ==
    \A i \in 1..Len(proxyOutbound) : is_url_allowed(proxyOutbound[i])

\* C9: every response proxy_fetch returns, whatever the upstream's headers
\* and the letter case of their names, carries none of x-frame-options,
\* content-security-policy, content-security-policy-report-only.
C9_FrameHeadersStripped ==
    ProxyReturned =>
        \A i \in 1..Len(proxyResp.headers) :
            lower(proxyResp.headers[i].name) \notin
                {H_xfo_lower, H_csp_lower, H_cspro_lower}

\* an upstream response that carried X-Frame-Options in mixed case, and a
\* header that is forwarded, was returned
C9_Witness ==
    /\ ProxyReturned
    /\ proxyResp.status = 200
    /\ \E i \in 1..Len(proxyUpstream) : proxyUpstream[i].name = H_xfo_mixed
    /\ \E i \in 1..Len(proxyResp.headers) : proxyResp.headers[i].name = H_content_type

\* C23: proxy_fetch maps each failure to one status: an invalid token to
\* 401; with a valid token, a scheme other than http(s) or an empty host
\* (netloc) to 400; otherwise a URL not on the allow-list to 403; an
\* upstream timeout to 504 and any other upstream transport error to 502.
\* In the 401, 400 and 403 cases no upstream request is made.
C23_FailureStatuses ==
    ProxyReturned =>
        LET parsed == urlparse(proxyReq.url)
            invalid == parsed.scheme \notin {S_http, S_https} \/ parsed.netloc = <<>>
        IN /\ ~proxyReq.token_ok => (proxyResp.status = 401 /\ proxyOutbound = <<>>)
           /\ (proxyReq.token_ok /\ invalid) =>
                  (proxyResp.status = 400 /\ proxyOutbound = <<>>)
           /\ (proxyReq.token_ok /\ ~invalid /\ ~is_url_allowed(proxyReq.url)) =>
                  (proxyResp.status = 403 /\ proxyOutbound = <<>>)
           /\ proxyError = "TimeoutException" => proxyResp.status = 504
           /\ proxyError = "RequestError" => proxyResp.status = 502

\* an upstream request, made after a redirect, timed out
C23_Witness ==
    /\ ProxyReturned
    /\ proxyError = "TimeoutException"
    /\ Len(proxyOutbound) = 2
    /\ proxyResp = HTTPException(504)

---------------------------------------------------------------------------
(* Properties of the init orchestrator *)

\* C2 (as claimed): concurrent RunInit calls on one enrollment never run the
\* init script twice in parallel: at most one thread is inside the script's
\* run at any time.
C2_InitSingleFlight ==
    Cardinality({w \in Workers : initPc[w] = "in_runner"}) <= 1

\* the thread returned from a call whose script ran to exit code 0 with
\* stdout out, and no other call has written the row since
InitParsed(w, out) ==
    /\ initPc[w] = "returned"
    /\ initLastCommit = w
    /\ initResult[w].success
    /\ initResult[w].exit_code = 0
    /\ initResult[w].stdout = out

\* C3 (as claimed): for stdout = preamble + newline + JSON object X with a
\* string url and an optional cookies list, RunInit ends with init_status =
\* success, app_url = X.url, app_cookies = X.cookies; for stdout of another
\* shape (no JSON, a JSON list, an object without url) it ends with
\* init_status = failed.
C3_EnvelopeRoundTrip ==
    \A w \in Workers :
        /\ \A pre \in Preambles, X \in Envelopes :
             InitParsed(w, EnvelopeStdout(pre, X)) =>
                /\ enrollment.init_status = "success"
                /\ initRet[w].status = "success"
                /\ enrollment.app_url = dict_get(X, K_url, None)
                /\ enrollment.app_cookies = dict_get(X, K_cookies, JList(<<>>))
        /\ \A out \in OtherStdouts :
             InitParsed(w, out) =>
                enrollment.init_status = "failed" /\ initRet[w].status = "failed"

---------------------------------------------------------------------------
(* Properties of init_status *)

\* the changes of init_status on the DAG pending -> running -> {success,
\* failed}, with failed -> running for a retry
InitStatusEdges ==
    {<<"pending", "running">>, <<"running", "success">>,
     <<"running", "failed">>, <<"failed", "running">>}

\* C12 (as claimed): every change of Enrollment.init_status is one of
\* pending -> running, running -> success, running -> failed, failed ->
\* running; nothing moves it from pending or failed to success directly, and
\* nothing moves it out of success.  Stated for a track with an init script.
C12_InitStatusTransitions ==
    [][(HasInitScript(track) /\ enrollment'.init_status # enrollment.init_status) =>
          <<enrollment.init_status, enrollment'.init_status>> \in InitStatusEdges]_vars

\* C13 (as claimed): in every reachable state, if the enrollment's
\* init_status is success then its app_url is non-null or its track has no
\* init script.
C13_SuccessHasUrl ==
    enrollment.init_status = "success" =>
        (enrollment.app_url # None \/ ~HasInitScript(track))

---------------------------------------------------------------------------
(* Properties of the execute route *)

\* the Execution rows inserted by thread w's latest request
RowsOf(w) == {i \in DOMAIN executions : executions[i].request = execReq[w].id}

\* row i is terminal and carries the values of the response ret
RowMatches(i, ret) ==
    /\ executions[i].status \in {"success", "failed"}
    /\ executions[i].stdout = ret.stdout
    /\ executions[i].stderr = ret.stderr
    /\ executions[i].exit_code = ret.exit_code
    /\ executions[i].duration_ms = ret.duration_ms

\* C10 (as claimed): for every /execute request that has returned, with a
\* result or with an error, exactly one Execution row exists for the
\* request, terminal and equal to the response in stdout, stderr, exit_code
\* and duration_ms.  Stated for the requests of the enrollment's owner.
C10_ReturnedHasOneRow ==
    \A w \in Workers :
        (execPc[w] = "returned" /\ execReq[w].caller = "owner") =>
            /\ Cardinality(RowsOf(w)) = 1
            /\ \A i \in RowsOf(w) : RowMatches(i, execRet[w])

\* C10 (amended): for every /execute request that passed the checks and
\* has returned its result, exactly one Execution row exists for the
\* request, terminal and equal to the response in stdout, stderr, exit_code
\* and duration_ms; a request rejected by the checks has no row.
C10_DispatchedHasOneRow ==
    \A w \in Workers :
        execPc[w] = "returned" =>
            IF execRet[w].http = 200
            THEN /\ Cardinality(RowsOf(w)) = 1
                 /\ \A i \in RowsOf(w) : RowMatches(i, execRet[w])
            ELSE RowsOf(w) = {}

\* a dispatched request has returned a failed run with output on stderr,
\* while the other thread's request has its row still running
C10_Witness ==
    \E w \in Workers, v \in Workers :
        /\ execPc[w] = "returned"
        /\ execRet[w].http = 200
        /\ ~execRet[w].success
        /\ execRet[w].stderr # <<>>
        /\ execPc[v] = "running"
        /\ Len(executions) = 2

\* thread w's request returns in this step from a validation of the
\* enrollment's current step that succeeded
ValidationSucceeds(w) ==
    /\ execPc[w] = "running"
    /\ execPc'[w] = "returned"
    /\ execReq[w].script_type = "validation"
    /\ execReq[w].step_order = enrollment.current_step
    /\ execRet'[w].success

\* C11 (as claimed): whenever a validation run at the enrollment's
\* current_step succeeds, the response has advanced = true and current_step
\* is incremented by one; on the final step of the track completed_at is set
\* as well.
C11_ValidationAdvances ==
    [][\A w \in Workers :
        ValidationSucceeds(w) =>
            /\ execRet'[w].advanced
            /\ enrollment'.current_step = enrollment.current_step + 1
            /\ (enrollment.current_step = Len(steps) => enrollment'.completed_at # 0)]_vars

\* get_certificate 194-196: the certificate id is the first 12 hex digits
\* of sha256 over "<user id>-<track id>-<completed_at.isoformat()>".  The
\* digest is kept as the text it is computed from (user 1, track 1, the
\* clock reading): equal texts give equal ids, and the digests of two
\* different texts are taken to differ.
certificate_id(e) == <<1, 1, e.completed_at>>

\* C22: the certificate id of a completed enrollment is the same on every
\* request: once completed_at is set, no later operation (such as running
\* the final step's validation again) changes it.
C22_CertificateIdStable ==
    [][enrollment.completed_at # 0 =>
          certificate_id(enrollment') = certificate_id(enrollment)]_vars

\* C26, for the execute route: a caller who neither owns the enrollment nor
\* is an admin is rejected with 403 and the call leaves no Execution row;
\* an admin who is not the owner is allowed (the request is not turned
\* away as if the enrollment did not exist).
C26_ExecuteAuthorization ==
    \A w \in Workers :
        (execPc[w] = "returned" /\ execReq[w].id # 0) =>
            /\ execReq[w].caller = "other" =>
                   (execRet[w].http = 403 /\ RowsOf(w) = {})
            /\ (execReq[w].caller = "admin" /\ execReq[w].step_order \in DOMAIN steps) =>
                   execRet[w].http # 404

---------------------------------------------------------------------------
(* Properties of the app container manager *)

\* C1 (as claimed): for every sequence and interleaving of Start, Restart,
\* Stop and Status calls on the enrollment, two concurrent Start calls
\* included, the database holds at most one AppContainer row of the
\* enrollment.
C1_AtMostOneRow == Cardinality(DOMAIN appRows) <= 1

\* thread w's Stop request has returned after stopping a row's container,
\* and no other thread has made a request
StopReturned(w) ==
    /\ appPc[w] = "returned"
    /\ appOp[w] = "stop"
    /\ appRet[w].http = 200
    /\ appRow[w] # 0
    /\ \A v \in Workers \ {w} : appPc[v] = "idle"

\* C15 (as claimed): after Stop returns, the engine holds no container for
\* the stopped handle, neither under the recorded container_id nor under
\* the name livelabs-app-<eid>, also when the engine's stop or remove call
\* failed with an API error.
C15_StopLeavesNoContainer ==
    \A w \in Workers : StopReturned(w) => ByName(AppContainerName) = {}

\* thread w's Stop request was let in and has returned, and no other thread
\* has made a request
StopAlone(w) ==
    /\ appPc[w] = "returned"
    /\ appOp[w] = "stop"
    /\ appRet[w].http # 403
    /\ \A v \in Workers \ {w} : appPc[v] = "idle"

\* C16: Stop is idempotent.  After Stop returns there is no AppContainer
\* row of the enrollment, whatever the state before it was (no row, a row
\* with a live container, a row whose container the engine no longer has),
\* and Stop reports success; so Start followed by Stop from zero rows
\* leaves zero rows.  Stated for requests made one after another.
C16_StopIdempotent ==
    \A w \in Workers :
        StopAlone(w) =>
            /\ DOMAIN appRows = {}
            /\ appRet[w] = AppResponse(200, "stopped", FALSE, FALSE)

\* a Stop has returned that found a row whose container the engine no
\* longer had
C16_Witness ==
    \E w \in Workers :
        /\ StopAlone(w)
        /\ appRow[w] # 0
        /\ engineEvents = 1
        /\ nextCid = 2
        /\ DOMAIN containers = {}
        /\ appCalls = 2

\* thread w's client made Stop and then Status, both answered with 200,
\* and no other thread has made a request
StatusAfterStop(w) ==
    /\ appPc[w] = "returned"
    /\ appOp[w] = "status"
    /\ appRet[w].http = 200
    /\ appPrev[w] = AppRequest("stop", 200)
    /\ \A v \in Workers \ {w} : appPc[v] = "idle"

\* the track's app is a container: an image and no URL template
ContainerTrack(t) == t.app_container_image # "" /\ ~Truthy(t.app_url_template)

C18_HostPortsDistinct ==
    \A r \in DOMAIN appRows :
        \A c1, c2 \in DOMAIN appRows[r].ports :
            c1 # c2 => appRows[r].ports[c1] # appRows[r].ports[c2]

\* AppContainer.status as models.py and the manager name its values
AppContainerStatuses == {"starting", "running", "stopped", "failed"}

\* C19: in every reachable state the status stored on an AppContainer row
\* is one of starting, running, stopped, failed; no operation, a Status
\* query that sees a container that is not running included, stores
\* another value.
C19_RowStatusInDomain ==
    \A r \in DOMAIN appRows : appRows[r].status \in AppContainerStatuses

\* C20: when an enrollment is deleted, its AppContainer row is deleted and
\* its engine container is removed: no AppContainer row and no container
\* named livelabs-app-<eid> outlives its enrollment.
C20_NothingOutlivesEnrollment ==
    ~enrolled => (DOMAIN appRows = {} /\ ByName(AppContainerName) = {})

\* thread w has removed what held the name and is about to call
\* containers.run, and another Start has created the container in between:
\* w has lost the race at container creation
LostCreationRace(w) == appPc[w] = "start_run" /\ ByName(AppContainerName) # {}

\* C27: when two Start calls for the same enrollment race at container
\* creation, the loser does not fail: its request goes on and ends with
\* the status of the running container.
C27_RaceLoserDoesNotFail ==
    [][\A w \in Workers :
          (LostCreationRace(w) /\ appPc'[w] # appPc[w]) => appRet'[w].http # 500]_vars

\* thread w's Status query returns in this step, having found row r as the
\* enrollment's only row with its container exited or dead in the engine,
\* and having written to the row
StatusSeesExited(w, r) ==
    /\ appOp[w] = "status"
    /\ appPc[w] = "status"
    /\ appPc'[w] = "returned"
    /\ DOMAIN appRows = {r}
    /\ appRows[r].container_id \in DOMAIN containers
    /\ containers[appRows[r].container_id].status \in {"exited", "dead"}
    /\ appRows' # appRows

\* C28: a Status query on an enrollment whose AppContainer row exists and
\* whose container the engine reports exited or dead reconciles it: the
\* container is started through the engine, restart_count is incremented,
\* and the reported state is running.
C28_StatusRestartsExited ==
    [][\A w \in Workers, r \in DOMAIN appRows :
          StatusSeesExited(w, r) =>
              /\ r \in DOMAIN appRows'
              /\ appRows'[r].restart_count = appRows[r].restart_count + 1
              /\ appRows[r].container_id \in DOMAIN containers'
              /\ containers'[appRows[r].container_id].status = "running"
              /\ appRet'[w].status = "running"]_vars

\* thread w's Status query returns in this step while no other request is
\* in flight, row r is the enrollment's only row and its container is
\* running in the engine
StatusSeesRunning(w, r) ==
    /\ appOp[w] = "status"
    /\ appPc[w] = "status"
    /\ appPc'[w] = "returned"
    /\ \A v \in Workers \ {w} : appPc[v] \in {"idle", "returned"}
    /\ DOMAIN appRows = {r}
    /\ appRows[r].container_id \in DOMAIN containers
    /\ containers[appRows[r].container_id].status = "running"

\* C29: whenever an AppContainer row exists and the engine reports its
\* container running, a Status query returns status running (the response
\* carries a URL exactly when its status is running, get_status 341),
\* whatever status the row held before.
C29_StatusFollowsRunningEngine ==
    [][\A w \in Workers, r \in DOMAIN appRows :
          StatusSeesRunning(w, r) => appRet'[w].status = "running"]_vars

\* C30: whenever Start, Restart or Status finds that the engine no longer
\* has the container handle recorded on the row, the stale row is deleted:
\* when the call returns, no AppContainer row references a handle the
\* engine reported missing to it.
C30_StaleRowDeleted ==
    \A w \in Workers :
        appPc[w] = "returned" =>
            \A r \in DOMAIN appRows : appRows[r].container_id \notin appMissing[w]

\* a Start found its row's container missing, deleted the row and created a
\* new container and row
C30_Witness ==
    \E w \in Workers :
        /\ appPc[w] = "returned"
        /\ appOp[w] = "start"
        /\ appMissing[w] # {}
        /\ appRet[w].http = 200
        /\ appRet[w].status = "running"
        /\ DOMAIN appRows # {}

\* thread w's restart_container looks at row r, the enrollment's only row,
\* in this step
RestartSees(w, r) ==
    /\ appPc[w] = "restart"
    /\ appPc'[w] # "restart"
    /\ DOMAIN appRows = {r}

\* the step restarted row r's container in place and incremented restart_count
RestartedInPlace(r) ==
    /\ r \in DOMAIN appRows'
    /\ appRows'[r].container_id = appRows[r].container_id
    /\ appRows'[r].restart_count = appRows[r].restart_count + 1
    /\ appRows[r].container_id \in DOMAIN containers'
    /\ containers'[appRows[r].container_id].status = "running"

\* C31 as stated: Restart uses the engine's in-place restart, and increments
\* restart_count, exactly when a row exists with restart_count < 3.
C31_InPlaceExactlyBelowCap ==
    [][\A w \in Workers, r \in DOMAIN appRows :
          RestartSees(w, r) => (RestartedInPlace(r) <=> appRows[r].restart_count < 3)]_vars

\* C31, amended: a Restart on a row with restart_count < 3 whose container
\* the engine has restarts it in place and increments restart_count, or, on
\* an engine error, marks the row failed and answers 500; when the engine
\* does not have the container the row is deleted and a start follows; when
\* restart_count has reached 3 the request goes on to stop_container and
\* start_container; every row that is inserted has restart_count 0.
C31_RestartPolicy ==
    [][/\ \A w \in Workers, r \in DOMAIN appRows :
            RestartSees(w, r) =>
                IF appRows[r].restart_count >= 3
                THEN appPc'[w] = "stop" /\ appRows' = appRows /\ containers' = containers
                ELSE IF appRows[r].container_id \notin DOMAIN containers
                THEN appPc'[w] = "start_query" /\ appRows' = <<>>
                ELSE \/ RestartedInPlace(r) /\ appPc'[w] = "status"
                     \/ /\ appRows' = [appRows EXCEPT ![r].status = "failed"]
                        /\ containers' = containers
                        /\ appRet'[w].http = 500
      /\ \A r \in DOMAIN appRows' \ DOMAIN appRows : appRows'[r].restart_count = 0]_vars

\* the first request made is a Restart on the row at the cap; it returned
\* running with a new container and a new row whose restart_count is 0
C31_Witness ==
    \E w \in Workers :
        /\ appCalls = 1
        /\ appOp[w] = "restart"
        /\ appPc[w] = "returned"
        /\ appRet[w] = AppResponse(200, "running", TRUE, FALSE)
        /\ appMissing[w] = {}
        /\ DOMAIN appRows = {2}
        /\ appRows[2].restart_count = 0
        /\ appRows[2].container_id = 2
        /\ DOMAIN containers = {2}

\* C36: for a track with an init script, the app status query returns
\* needs_init when init_status is pending, initializing when running, and,
\* when failed, init_failed if the track has no app_url_template but ready
\* with the configured URL if it has one; no URL is returned while
\* init_status is pending or running.
C36_StatusFollowsInit ==
    [][\A w \in Workers :
          (/\ appCalls' = appCalls + 1
           /\ appOp'[w] = "status"
           /\ appRet'[w].http = 200
           /\ HasInitScript(track)) =>
              LET answer == appRet'[w]
                  url == appUrl'[w]
                  init_status == enrollment.init_status
              IN /\ init_status = "pending" =>
                        answer.status = "needs_init" /\ answer.has_app /\ url = None
                 /\ init_status = "running" =>
                        answer.status = "initializing" /\ answer.has_app /\ url = None
                 /\ init_status = "failed" =>
                        IF Truthy(track.app_url_template)
                        THEN answer.status = "ready" /\ url = track.app_url_template
                        ELSE answer.status = "init_failed" /\ answer.has_app /\ url = None]_vars

\* a status query found the init script of a track without a URL template
\* failed
C36_Witness ==
    \E w \in Workers :
        /\ appPc[w] = "returned"
        /\ appOp[w] = "status"
        /\ HasInitScript(track)
        /\ ~Truthy(track.app_url_template)
        /\ enrollment.init_status = "failed"
        /\ appRet[w] = AppResponse(200, "init_failed", TRUE, FALSE)
        /\ appUrl[w] = None

\* s has the text p somewhere
Contains(s, p) == \E i \in 1..(Len(s) - Len(p) + 1) : SubSeq(s, i, i + Len(p) - 1) = p

\* thread w's request returns in this step; before it the enrollment's
\* only row is running with mapped ports and its container is running in
\* the engine
AnswersWithRunningApp(w, r) ==
    /\ appPc'[w] = "returned"
    /\ appPc[w] # "returned"
    /\ appRet'[w].http = 200
    /\ DOMAIN appRows = {r}
    /\ appRows[r].status = "running"
    /\ DOMAIN appRows[r].ports # {}
    /\ appRows[r].container_id \in DOMAIN containers
    /\ containers[appRows[r].container_id].status = "running"

\* C37: whenever the track has an app_url_template and an app container
\* with mapped ports is running, the URL returned by the app status query
\* and by the Start response has every {port} token replaced by the first
\* mapped host port and every {port:C} token replaced by the host port
\* mapped to container port C; no returned URL contains an unsubstituted
\* {port} token.
C37_UrlPortsSubstituted ==
    [][\A w \in Workers, r \in DOMAIN appRows :
          (AnswersWithRunningApp(w, r) /\ appOp'[w] \in {"status", "start"}) =>
              /\ appUrl'[w] # None
              /\ ~Contains(appUrl'[w].str, S_port_token)
              /\ ~Contains(appUrl'[w].str, S_port_prefix)
              /\ appUrl'[w].str =
                    S_localhost_url \o port_text(appRows[r].ports[80]) \o <<"/">>
                        \o port_text(appRows[r].ports[81])]_vars

---------------------------------------------------------------------------
(* Properties of enrollments *)

\* C21: after any sequence or interleaving of enroll and unenroll requests
\* there is at most one Enrollment per (user, track); an enroll request made
\* while the user is enrolled is rejected with 400 and creates no row.
C21_OneEnrollmentPerUserTrack == Cardinality(enrollments) <= 1

---------------------------------------------------------------------------
(* Properties of the terminal WebSocket *)

\* the ends of a session whose TerminalSession object was built
SessionEnds ==
    {"close_frame", "disconnect", "malformed", "incomplete", "ready_failed"}

\* C14 (as claimed): after a TTY session ends by any path (client close
\* frame, client disconnect, malformed or incomplete client frame, failure
\* while sending the ready frame or building the session, exec setup
\* failure, reader error), the container created for it has been stopped
\* and removed from the engine.  Stated for the ends of a session whose
\* TerminalSession object was built.
C14_TerminalContainerRemoved ==
    (termPc = "closed" /\ termEndedBy \in SessionEnds) => termCid \notin DOMAIN containers

\* the close code the claim gives for each setup failure
SetupFailureCode(by) ==
    IF by = "bad_token" THEN 4001
    ELSE IF by \in {"no_enrollment", "no_track"} THEN 4004
    ELSE 4500

SetupFailures ==
    {"bad_token", "no_enrollment", "no_track", "run_failed", "exec_failed", "build_failed"}

\* C25: the first server frame of a session that was set up is ready, and
\* no PTY output frame precedes it; every setup failure yields an error
\* frame followed by a close with code 4001 (bad token), 4004 (enrollment
\* or track missing) or 4500 (engine failure creating the container, the
\* exec or the session).
C25_ReadyFirstOrErrorAndCode ==
    /\ (\E i \in 1..Len(termOut) : termOut[i] \in {"ready", "output"}) => termOut[1] = "ready"
    /\ (termPc = "closed" /\ termEndedBy \in SetupFailures) =>
           /\ termOut = <<"error">>
           /\ termClose = SetupFailureCode(termEndedBy)

\* C32: if the container-side stream of a TTY session reaches EOF or errors
\* (for example the shell exits), the session terminates without needing
\* any further client frame.
C32_StreamEndTerminates ==
    (termPc = "ready" /\ termReader = "done") ~> (termPc = "closed")

\* C33: on TTY session termination both pumps have stopped before the
\* container stop/remove begins: teardown never starts while the reader
\* pump is still blocked reading the engine stream or still sending to the
\* client.  termStop is the reader's state at the moment container.stop
\* was called.
C33_PumpsStoppedBeforeTeardown == termStop # "reading"

---------------------------------------------------------------------------
(* Properties of the image manager *)

\* C34: image pulls are single-flight per image: for any interleaving of
\* concurrent pull_image_async and pull_image calls naming the same image,
\* at most one engine pull of that image is in flight at a time.
C34_SingleFlightPull ==
    Cardinality({t \in ImageThreads : imgPc[t] = "pulling"}) <= 1

\* C35: once a background pull started by pull_image_async has finished
\* (and no other pull or call is under way), the recorded pull status of the
\* image is its final status (available, not_found or error) and not
\* pulling, in every interleaving of the pull thread with the caller that
\* started it.
C35_FinishedPullIsFinal ==
    (/\ \E p \in PullThreads : imgPc[p] = "done"
     /\ \A t \in ImageThreads : imgPc[t] \in {"idle", "unused", "done"})
        => pull_status \in FinalPullStatuses

(***************************************************************************)
(* Properties of run_init's early returns and of its commits               *)
(***************************************************************************)
\* the request of worker w decides on the enrollment it loaded
InitDecides(w) == initPc[w] = "loaded" /\ initPc'[w] # "loaded"

\* C38: on a track with an init script, a run_init request that loaded the
\* enrollment with init_status success or running starts no container,
\* writes no field of the enrollment and returns at once: status success
\* with the loaded app_url and app_cookies, or status running with no url.
C38_CachedInitIsNoOp ==
    [][\A w \in Workers :
         (InitDecides(w) /\ HasInitScript(track)
            /\ initLoaded[w].init_status \in {"success", "running"})
         => /\ enrollment' = enrollment
            /\ containers' = containers
            /\ nextCid' = nextCid
            /\ initPc'[w] = "returned"
            /\ initRet'[w].status = initLoaded[w].init_status
            /\ initRet'[w].error = <<>>
            /\ IF initLoaded[w].init_status = "success"
               THEN /\ initRet'[w].url = initLoaded[w].app_url
                    /\ initRet'[w].cookies = initLoaded[w].app_cookies
               ELSE /\ initRet'[w].url = None
                    /\ initRet'[w].cookies = JList(<<>>)]_vars

\* one request was answered from the stored success (it ran no script: its
\* runner result is empty) and another was answered "running"
C38_Witness ==
    \E w, v \in Workers :
        /\ HasInitScript(track)
        /\ initPc[w] = "returned" /\ initResult[w] = NoResult
        /\ initRet[w].status = "success"
        /\ initRet[w].url = enrollment.app_url /\ initRet[w].url # None
        /\ initRet[w].cookies = enrollment.app_cookies
        /\ initPc[v] = "returned" /\ initRet[v].status = "running"

\* the request of worker w has marked the enrollment as running and has not
\* returned yet
InitInFlight(w) == initPc[w] \in {"marked", "in_runner"}

ExecArrives(w) == execCalls' = execCalls + 1 /\ execReq'[w].id = execCalls + 1

\* the request names no enrollment of the caller, no step of the track, a
\* step beyond the enrollment's current_step or a script type other than
\* setup and validation
ExecMustReject(req) ==
    \/ req.caller # "owner"
    \/ req.step_order \notin DOMAIN steps
    \/ req.step_order > enrollment.current_step
    \/ req.script_type \notin {"setup", "validation"}

\* C40: an execute request that names an unknown enrollment or step, a
\* step beyond current_step or a script type other than setup/validation
\* is answered with an error in the step in which it arrives: no Execution
\* row is added or changed, no container is created, and the enrollment
\* (current_step and completed_at included) is unchanged.
C40_RejectedExecuteHasNoEffect ==
    [][\A w \in Workers :
         (ExecArrives(w) /\ ExecMustReject(execReq'[w]))
         => /\ execPc'[w] = "returned"
            /\ execRet'[w].http \in {400, 403, 404}
            /\ execRow'[w] = 0
            /\ executions' = executions
            /\ containers' = containers
            /\ nextCid' = nextCid
            /\ enrollment' = enrollment
            /\ enrollment'.current_step = enrollment.current_step
            /\ enrollment'.completed_at = enrollment.completed_at]_vars

\* one request was rejected for its step being ahead of the enrollment and
\* another for its script type; no row exists
C40_Witness ==
    \E w, v \in Workers :
        /\ execPc[w] = "returned" /\ execRet[w].http = 403
        /\ execReq[w].step_order > enrollment.current_step
        /\ execPc[v] = "returned" /\ execRet[v].http = 400
        /\ execReq[v].script_type = "init"
        /\ executions = <<>>

====
